---- MODULE Spec2Model ----
(***************************************************************************)
(* Model of the daemon-admin backend: the SSH connection pool              *)
(* (app/services/ssh_manager.py) and the service layer built on it         *)
(* (app/services/service_service.py).                                      *)
(*                                                                         *)
(* SpecPool : concurrent get_connection calls on the connection pool.      *)
(* SpecDisc : discovery and reconciliation of the services table.          *)
(* Spec     : the service-layer handlers (control, logs, deploy, remove)   *)
(*            acting on the database and one remote host.                  *)
(* SpecOvr  : override files: update_service with faults, and read-back.   *)
(* SpecRb   : override files: rollback_service_configuration with faults.  *)
(***************************************************************************)
EXTENDS Integers, Sequences, FiniteSets, TLC

VARIABLES
    \* ---- connection pool (SSHConnectionManager) ----
    connections,        \* _connections: key -> cached session id (0 = no entry)
    connection_locks,   \* _connection_locks: key -> -1 no lock object, 0 free, c held by caller c
    pc,                 \* position of every get_connection caller
    ckey,               \* connection key the caller is acquiring
    ret,                \* what the call returned: 0 nothing yet, -1 SSHConnectionError, n session n
    blocked,            \* the caller had to wait for the per-key lock during this call
    calls,              \* number of get_connection calls the caller has started
    createCalls,        \* per key: number of _create_connection calls made
    created,            \* per key: number of sessions successfully created (also the newest id)
    failures,           \* per key: number of failed remote round trips (probe or creation)
    workers,            \* callers whose blocking remote call runs on a thread of _executor
    \* ---- service layer (ServiceService) and the remote host ----
    server,             \* the Server row: is_enabled, auto_discover_services
    services,           \* the rows of the services table of that server
    nextId,             \* next primary key of the services table
    files,              \* unit files under /etc/systemd/system on the host: <<base name, kind>>
    last,               \* what the most recent handler did and returned
    \* ---- override files of the host (<unit>.service.d/override.conf) ----
    overrides,          \* base name -> text of the active override file (NoFile = absent)
    backups,            \* <<base name, timestamp>> -> text of override.conf.backup_<timestamp>
    tmpfiles,           \* <<base name, timestamp>> -> text of /tmp/override_<base>_<timestamp>.conf
    clock,              \* the wall clock in seconds, as datetime.now() reads it
    override_config,    \* Service.override_config per row id (NoCfg = None)
    \* ---- requests in progress ----
    passes              \* per discovery pass: whether it runs, and the rows it read at its start

poolVars == <<connections, connection_locks, pc, ckey, ret, blocked, calls,
              createCalls, created, failures, workers>>

svcVars == <<server, services, nextId, files, last>>
svcVars_but_last == <<server, services, nextId, files>>

ovrVars == <<overrides, backups, tmpfiles, clock, override_config>>

txVars == <<passes>>

vars == <<poolVars, svcVars, ovrVars, txVars>>

----------------------------------------------------------------------------
(* Bounds *)
NCallers == 2       \* concurrent callers of get_connection
PoolSize == 1       \* settings.ssh_connection_pool_size: threads of the executor
MaxCalls == 2       \* get_connection calls per caller

Callers == 1..NCallers
Keys == {"h1:22:root", "h2:22:root"}

----------------------------------------------------------------------------
(* Connection pool: SSHConnectionManager.get_connection *)

\* `async with self._connection_locks[key]`: the lock can be taken when nobody holds it
LockFree_NoMutex(k) == TRUE
LockFree(k) == connection_locks[k] <= 0

\* the synchronous stretch after the lock is taken: cached -> probe it, else create
AfterLock(c, k) ==
    IF connections[k] # 0
    THEN /\ pc' = [pc EXCEPT ![c] = "probing"]
         /\ UNCHANGED createCalls
    ELSE /\ pc' = [pc EXCEPT ![c] = "creating"]
         /\ createCalls' = [createCalls EXCEPT ![k] = @ + 1]

\* get_connection up to its first await
GetConnection(c, k) ==
    /\ pc[c] = "idle"
    /\ calls[c] < MaxCalls
    /\ calls' = [calls EXCEPT ![c] = @ + 1]
    /\ ckey' = [ckey EXCEPT ![c] = k]
    /\ ret' = [ret EXCEPT ![c] = 0]
    /\ IF LockFree(k)
       THEN /\ connection_locks' = [connection_locks EXCEPT ![k] = c]
            /\ blocked' = [blocked EXCEPT ![c] = FALSE]
            /\ AfterLock(c, k)
       ELSE /\ pc' = [pc EXCEPT ![c] = "waiting"]
            /\ blocked' = [blocked EXCEPT ![c] = TRUE]
            /\ UNCHANGED <<connection_locks, createCalls>>
    /\ UNCHANGED <<connections, created, failures, workers>>
    /\ UNCHANGED <<svcVars, ovrVars, txVars>>

\* a waiter obtains the lock once it is released
LockAcquired(c) ==
    /\ pc[c] = "waiting"
    /\ LockFree(ckey[c])
    /\ connection_locks' = [connection_locks EXCEPT ![ckey[c]] = c]
    /\ AfterLock(c, ckey[c])
    /\ UNCHANGED <<connections, ckey, ret, blocked, calls, created, failures, workers>>
    /\ UNCHANGED <<svcVars, ovrVars, txVars>>

\* run_in_executor: the executor starts a submitted call when one of its
\* max_workers threads is free; until then the call waits in the executor's queue
Dispatch_Unbounded(c) ==
    /\ pc[c] \in {"probing", "creating"}
    /\ c \notin workers
    /\ workers' = workers \cup {c}
    /\ UNCHANGED <<connections, connection_locks, pc, ckey, ret, blocked, calls,
                   createCalls, created, failures>>
    /\ UNCHANGED <<svcVars, ovrVars, txVars>>
Dispatch(c) ==
    /\ pc[c] \in {"probing", "creating"}
    /\ c \notin workers
    /\ Cardinality(workers) < PoolSize
    /\ workers' = workers \cup {c}
    /\ UNCHANGED <<connections, connection_locks, pc, ckey, ret, blocked, calls,
                   createCalls, created, failures>>
    /\ UNCHANGED <<svcVars, ovrVars, txVars>>

\* the `echo "ping"` probe of the cached session returns
ProbeDone_KeepsDead(c, ok) ==
    /\ pc[c] = "probing"
    /\ c \in workers
    /\ workers' = workers \ {c}
    /\ LET k == ckey[c] IN
       IF ok
       THEN /\ ret' = [ret EXCEPT ![c] = connections[k]]
            /\ pc' = [pc EXCEPT ![c] = "done"]
            /\ connection_locks' = [connection_locks EXCEPT ![k] = 0]
            /\ UNCHANGED <<connections, createCalls, failures>>
       ELSE /\ failures' = [failures EXCEPT ![k] = @ + 1]
            /\ pc' = [pc EXCEPT ![c] = "creating"]
            /\ createCalls' = [createCalls EXCEPT ![k] = @ + 1]
            /\ UNCHANGED <<ret, connection_locks, connections>>
    /\ UNCHANGED <<ckey, blocked, calls, created>>
    /\ UNCHANGED <<svcVars, ovrVars, txVars>>
ProbeDone(c, ok) ==
    /\ pc[c] = "probing"
    /\ c \in workers
    /\ workers' = workers \ {c}
    /\ LET k == ckey[c] IN
       IF ok
       THEN /\ ret' = [ret EXCEPT ![c] = connections[k]]
            /\ pc' = [pc EXCEPT ![c] = "done"]
            /\ connection_locks' = [connection_locks EXCEPT ![k] = 0]
            /\ UNCHANGED <<connections, createCalls, failures>>
       ELSE \* _close_connection, then fall through to _create_connection
            /\ connections' = [connections EXCEPT ![k] = 0]
            /\ failures' = [failures EXCEPT ![k] = @ + 1]
            /\ pc' = [pc EXCEPT ![c] = "creating"]
            /\ createCalls' = [createCalls EXCEPT ![k] = @ + 1]
            /\ UNCHANGED <<ret, connection_locks>>
    /\ UNCHANGED <<ckey, blocked, calls, created>>
    /\ UNCHANGED <<svcVars, ovrVars, txVars>>

\* leaving the `async with` block, by return or by exception: the holder of the
\* lock afterwards (0 = nobody)
ExitLock_HeldOnRaise(c, raised) == IF raised THEN c ELSE 0
ExitLock(c, raised) == 0

\* _create_connection returns (its `echo "connection_test"` round trip succeeded) or raises
CreateDone_CachesUntested(c, ok) ==
    /\ pc[c] = "creating"
    /\ c \in workers
    /\ workers' = workers \ {c}
    /\ LET k == ckey[c] IN
       /\ connection_locks' = [connection_locks EXCEPT ![k] = ExitLock(c, ~ok)]
       /\ pc' = [pc EXCEPT ![c] = "done"]
       /\ created' = [created EXCEPT ![k] = @ + 1]
       /\ connections' = [connections EXCEPT ![k] = created[k] + 1]
       /\ IF ok
          THEN /\ ret' = [ret EXCEPT ![c] = created[k] + 1]
               /\ UNCHANGED failures
          ELSE /\ failures' = [failures EXCEPT ![k] = @ + 1]
               /\ ret' = [ret EXCEPT ![c] = -1]
    /\ UNCHANGED <<ckey, blocked, calls, createCalls>>
    /\ UNCHANGED <<svcVars, ovrVars, txVars>>
CreateDone(c, ok) ==
    /\ pc[c] = "creating"
    /\ c \in workers
    /\ workers' = workers \ {c}
    /\ LET k == ckey[c] IN
       /\ connection_locks' = [connection_locks EXCEPT ![k] = ExitLock(c, ~ok)]
       /\ pc' = [pc EXCEPT ![c] = "done"]
       /\ IF ok
          THEN /\ created' = [created EXCEPT ![k] = @ + 1]
               /\ connections' = [connections EXCEPT ![k] = created[k] + 1]
               /\ ret' = [ret EXCEPT ![c] = created[k] + 1]
               /\ UNCHANGED failures
          ELSE /\ failures' = [failures EXCEPT ![k] = @ + 1]
               /\ ret' = [ret EXCEPT ![c] = -1]
               /\ UNCHANGED <<connections, created>>
    /\ UNCHANGED <<ckey, blocked, calls, createCalls>>
    /\ UNCHANGED <<svcVars, ovrVars, txVars>>

\* The remote command in flight (the probe, or the round trip of a creation)
\* never produces a response.  connection.run is called without a command
\* timeout (only the connect phase is bounded by connection_timeout), so the
\* worker thread stays blocked in it and the call never resumes: pc "hung" has
\* no way out.
Hang(c) ==
    /\ pc[c] \in {"probing", "creating"}
    /\ c \in workers
    /\ pc' = [pc EXCEPT ![c] = "hung"]
    /\ UNCHANGED <<connections, connection_locks, ckey, ret, blocked, calls,
                   createCalls, created, failures, workers>>
    /\ UNCHANGED <<svcVars, ovrVars, txVars>>

\* the caller takes its result and may call again
Finish(c) ==
    /\ pc[c] = "done"
    /\ calls[c] < MaxCalls
    /\ pc' = [pc EXCEPT ![c] = "idle"]
    /\ UNCHANGED <<connections, connection_locks, ckey, ret, blocked, calls,
                   createCalls, created, failures, workers>>
    /\ UNCHANGED <<svcVars, ovrVars, txVars>>

----------------------------------------------------------------------------
(* The remote host as the service layer sees it *)

MaxId == 3          \* rows ever inserted into the services table
MaxFaults == 2      \* remote steps of one operation that fail or raise

Bases == {"app", "job"}                       \* names as a create request gives them
UnitNames == {"app.service", "job.service"}   \* unit names as systemd and the table hold them

\* f"{service_config.name}.service"
UnitName(b) == IF b = "app" THEN "app.service" ELSE "job.service"
\* service.name.replace('.service', '')
CleanName(n) == IF n = "app.service" THEN "app" ELSE "job"
\* position of a unit in the listing returned by systemctl list-units
UnitIndex(n) == IF n = "app.service" THEN 1 ELSE 2

\* a remote command exits zero, exits non-zero, or dies in transport (SSHCommandError)
Outcomes == {"ok", "fail", "raise"}
ActiveStates == {"active", "inactive"}

\* _map_service_status: systemd ActiveState -> ServiceStatus
MapServiceStatus(a) ==
    CASE a = "active" -> "ACTIVE"
      [] a = "inactive" -> "INACTIVE"
      [] a = "failed" -> "FAILED"
      [] a = "activating" -> "ACTIVATING"
      [] a = "deactivating" -> "DEACTIVATING"
      [] OTHER -> "UNKNOWN"

\* an Optional field that holds None
NoPid == "None"
\* the MainPID property systemctl show prints: 0 for a unit that has no main process
HostMainPid(a) == IF a = "active" THEN "4242" ELSE "0"
\* int(properties.get("MainPID", 0)) or None
ParseMainPid(v) == IF v = "0" THEN NoPid ELSE v

\* Service.update_status(status, main_pid=...): the status is stored, an optional
\* argument is stored when it is not None
UpdateStatus(s, status, main_pid) ==
    [s EXCEPT !.status = status,
              !.main_pid = IF main_pid # NoPid THEN main_pid ELSE s.main_pid]

\* what handlers report; every handler overwrites all of it
NoOp == [op |-> "none", outcome |-> "none", remote |-> 0, unit |-> "",
         dry_run |-> FALSE, timer |-> FALSE, ssh_ok |-> FALSE, del_ok |-> FALSE,
         besteffort_only |-> FALSE, written |-> {}, created_files |-> {},
         rendered |-> {}, rec |-> 0, cfg_errors |-> FALSE,
         discovered |-> 0, updated |-> 0, removed |-> 0, seen |-> {},
         degraded |-> FALSE, barred |-> FALSE, remove_files |-> FALSE, action |-> "",
         force |-> FALSE, transport |-> FALSE, exc |-> "none",
         \* override handlers
         applied |-> FALSE, create_backup |-> FALSE, backup_file |-> -1,
         content |-> <<>>, remove_override |-> FALSE,
         \* request validation and timer rendering
         rejected |-> FALSE, create_timer |-> FALSE, timer_config |-> {},
         timer_text |-> <<>>,
         \* restart and status refresh
         restart_service |-> FALSE, restart |-> "none", refresh |-> "none",
         \* system information
         facts |-> <<>>, probes |-> <<>>, host |-> "",
         \* rendering
         file |-> "", cron |-> <<>>, config |-> <<>>, repeat |-> FALSE,
         \* discovery
         infos |-> {},
         \* concurrent override calls
         caller |-> 0, installed |-> <<>>]

----------------------------------------------------------------------------
(* Discovery: SSHConnectionManager.discover_services *)

\* Inputs of one discovery: how session acquisition and the listing command end,
\* and for every listed unit its ActiveState and how its `systemctl show` ends.
\* list = "text_*": the JSON output did not parse and the text listing was run.
ListOk == {"ok", "text_ok"}
UnitReports == UNION {[D -> [active : ActiveStates, detail : Outcomes]] : D \in SUBSET UnitNames}
DiscFaults(i) ==
    (IF i.conn = "ok" THEN 0 ELSE 1) + (IF i.list \in ListOk THEN 0 ELSE 1)
    + Cardinality({n \in DOMAIN i.units : i.units[n].detail # "ok"})
DiscInputs ==
    {v : v \in
    {i \in  {[conn |-> "raise", list |-> "ok", units |-> <<>>]}
            \cup {[conn |-> "ok", list |-> l, units |-> <<>>] :
                     l \in {"fail", "raise", "text_fail", "text_raise"}}
            \cup {[conn |-> "ok", list |-> l, units |-> u] : l \in ListOk, u \in UnitReports} :
        DiscFaults(i) <= MaxFaults}}

\* the list of service_info dicts discover_services returns, or the SSHConnectionError it raises
SshDiscoverServices(i) ==
    IF i.conn = "raise"
    THEN [raised |-> TRUE, infos |-> {}, remote |-> 1]
    ELSE CASE i.list = "raise" -> [raised |-> TRUE, infos |-> {}, remote |-> 2]
           [] i.list = "fail" -> [raised |-> FALSE, infos |-> {}, remote |-> 2]
           [] i.list = "text_raise" -> [raised |-> TRUE, infos |-> {}, remote |-> 3]
           [] i.list = "text_fail" -> [raised |-> FALSE, infos |-> {}, remote |-> 3]
           [] OTHER ->
                \* _get_service_details returns None when the query fails or raises
                [raised |-> FALSE,
                 infos |-> {[name |-> n, status |-> MapServiceStatus(i.units[n].active),
                             main_pid |-> ParseMainPid(HostMainPid(i.units[n].active))] :
                               n \in {m \in DOMAIN i.units : i.units[m].detail = "ok"}},
                 remote |-> (IF i.list = "ok" THEN 2 ELSE 3) + Cardinality(DOMAIN i.units)]

\* the listing command exited non-zero or some per-unit query failed
Degraded(i) ==
    /\ i.conn = "ok"
    /\ \/ i.list \in {"fail", "text_fail"}
       \/ \E n \in DOMAIN i.units : i.units[n].detail # "ok"

----------------------------------------------------------------------------
(* Reconciliation: ServiceService.discover_services *)

\* creation_source of a row that discover_services inserts
DefaultCreationSource == "discovered"

\* next(s for s in current_services if s.name == service_name)
Existing(L, n) ==
    LET c == {s \in L : s.name = n}
    IN IF c = {} THEN {} ELSE {CHOOSE s \in c : \A t \in c : s.id <= t.id}

\* rows updated in place from the discovered data
UpdatedRows(L, infos) ==
    {s \in L : \E x \in infos : s \in Existing(L, x.name)}
ApplyUpdate(s, infos) ==
    LET x == CHOOSE y \in infos : y.name = s.name
    IN UpdateStatus(s, x.status, x.main_pid)

\* names for which a new row is inserted
ToCreate(L, infos) == {x \in infos : Existing(L, x.name) = {}}
NewRows(L, infos, first) ==
    {[id |-> first + Cardinality({y \in ToCreate(L, infos) : UnitIndex(y.name) < UnitIndex(x.name)}),
      name |-> x.name, service_type |-> "systemd",
      creation_source |-> DefaultCreationSource,
      is_managed |-> TRUE, is_timer |-> FALSE, timer_schedule |-> "None",
      status |-> x.status, main_pid |-> x.main_pid] :
        x \in ToCreate(L, infos)}

\* rows deleted because their name was not discovered
ToDelete(L, infos) ==
    {s \in L : /\ s.name \notin {x.name : x \in infos}
               /\ s.service_type = "systemd"}

DiscoverServices(force, i) ==
    LET r == SshDiscoverServices(i)
        L == services
        upd == UpdatedRows(L, r.infos)
        new == NewRows(L, r.infos, nextId)
        del == ToDelete(L, r.infos)
        rep == [NoOp EXCEPT !.op = "discover", !.force = force]
    IN
    /\ nextId + Cardinality(UnitNames) - 1 <= MaxId
    /\ IF ~server.is_enabled
       THEN /\ last' = [rep EXCEPT !.outcome = "ValueError"]
            /\ UNCHANGED <<services, nextId>>
       ELSE IF ~server.auto_discover_services /\ ~force
       THEN /\ last' = [rep EXCEPT !.outcome = "failure"]
            /\ UNCHANGED <<services, nextId>>
       ELSE IF r.raised
       THEN /\ last' = [rep EXCEPT !.outcome = "failure", !.remote = r.remote]
            /\ UNCHANGED <<services, nextId>>
       ELSE /\ services' = ((L \ (upd \cup del)) \cup {ApplyUpdate(s, r.infos) : s \in upd})
                             \cup new
            /\ nextId' = nextId + Cardinality(new)
            /\ last' = [rep EXCEPT !.outcome = "success", !.remote = r.remote,
                                   !.discovered = Cardinality(new),
                                   !.updated = Cardinality({x \in r.infos : Existing(L, x.name) # {}}),
                                   !.removed = Cardinality(del),
                                   !.seen = {x.name : x \in r.infos},
                                   !.infos = r.infos,
                                   !.degraded = Degraded(i)]
    /\ UNCHANGED <<server, files>>
    /\ UNCHANGED <<poolVars, ovrVars, txVars>>

\* Server.mark_online, mark_offline, mark_error
MarkOnline(srv) == [srv EXCEPT !.status = "ONLINE"]
MarkOffline(srv) == [srv EXCEPT !.status = "OFFLINE"]
MarkError(srv) == [srv EXCEPT !.status = "ERROR"]

\* SSHConnectionManager.test_connection: (success) and the number of remote calls
SshTestConnection(o) ==
    IF o["conn"] = "raise" THEN [ok |-> FALSE, remote |-> 1]
    ELSE [ok |-> o["cmd"] = "ok", remote |-> 2]

\* ServerService.update_server: an operator changes the flags of the server; when
\* the server is enabled afterwards _update_server_status tests the connection
\* (o) and marks the server online or offline
UpdateServerProbe(en, ad, o) ==
    LET changed == [server EXCEPT !.is_enabled = en, !.auto_discover_services = ad]
        t == SshTestConnection(o)
    IN
    /\ changed # server
    /\ server' = IF ~en THEN changed
                 ELSE IF t.ok THEN MarkOnline(changed) ELSE MarkOffline(changed)
    /\ last' = [NoOp EXCEPT !.op = "update_server", !.outcome = "success",
                            !.ssh_ok = (en /\ t.ok),
                            !.remote = (IF en THEN t.remote ELSE 0)]
    /\ UNCHANGED <<services, nextId, files>>
    /\ UNCHANGED <<poolVars, ovrVars, txVars>>
\* the same on a host that answers
UpdateServer(en, ad) ==
    /\ UpdateServerProbe(en, ad, [x \in {"conn", "cmd"} |-> "ok"])

\* ServerService.test_connection
TestConnection_NoEnabledCheck(o) ==
    LET t == SshTestConnection(o)
    IN /\ server' = IF t.ok THEN MarkOnline(server) ELSE MarkOffline(server)
       /\ last' = [NoOp EXCEPT !.op = "test_connection", !.ssh_ok = t.ok,
                               !.remote = t.remote,
                               !.outcome = (IF t.ok THEN "success" ELSE "failure")]
       /\ UNCHANGED <<services, nextId, files>>
       /\ UNCHANGED <<poolVars, ovrVars, txVars>>
TestConnection(o) ==
    LET t == SshTestConnection(o)
    IN /\ IF ~server.is_enabled
          THEN /\ last' = [NoOp EXCEPT !.op = "test_connection", !.outcome = "failure"]
               /\ UNCHANGED server
          ELSE /\ server' = IF t.ok THEN MarkOnline(server) ELSE MarkOffline(server)
               /\ last' = [NoOp EXCEPT !.op = "test_connection", !.ssh_ok = t.ok,
                                       !.remote = t.remote,
                                       !.outcome = (IF t.ok THEN "success" ELSE "failure")]
       /\ UNCHANGED <<services, nextId, files>>
       /\ UNCHANGED <<poolVars, ovrVars, txVars>>

\* ServerService.gather_system_info: conn is the outcome of the session acquisition
\* inside get_system_info, the only step that makes it raise
GatherSystemInfo(conn) ==
    /\ IF ~server.is_enabled
       THEN /\ last' = [NoOp EXCEPT !.op = "gather_system_info", !.outcome = "failure"]
            /\ UNCHANGED server
       ELSE IF conn = "raise"
       THEN /\ server' = MarkError(server)
            /\ last' = [NoOp EXCEPT !.op = "gather_system_info", !.outcome = "failure",
                                    !.exc = "SSHConnectionError", !.remote = 1]
       ELSE /\ server' = MarkOnline(server)
            /\ last' = [NoOp EXCEPT !.op = "gather_system_info", !.outcome = "success",
                                    !.ssh_ok = TRUE, !.remote = 8]
    /\ UNCHANGED <<services, nextId, files>>
    /\ UNCHANGED <<poolVars, ovrVars, txVars>>

----------------------------------------------------------------------------
(* Deployment: SSHConnectionManager.create_systemd_service *)

\* the remote steps of create_systemd_service, in program order
DeploySteps == {"conn", "ws", "wt", "rm", "rl", "en", "st"}

DeploySeq == <<"conn", "ws", "wt", "rm", "rl", "en", "st">>

FaultCount(o) == Cardinality({x \in DOMAIN o : o[x] # "ok"})

\* create_systemd_service ends at an exception, at a failed write of the service file,
\* and after the clean-up that follows a failed write of the timer file
DeployEnds(o, x) ==
    \/ o[x] = "raise"
    \/ x = "ws" /\ o[x] = "fail"
    \/ x = "rm" /\ o["wt"] = "fail"
\* control_service: no status refresh follows an exception or a failed action,
\* and no commit follows a systemctl show that failed
ControlEnds(o, x) == o[x] = "raise" \/ (x \in {"cmd", "show"} /\ o[x] = "fail")
\* remove_systemd_service and get_service_logs end only at an exception
Raises(o, x) == o[x] = "raise"
\* create_service_override ends at an exception, at a failed mkdir or temp-file
\* write, after the clean-up that follows a failed rename, and at the reload
OverrideEnds(o, x) ==
    \/ o[x] = "raise"
    \/ x \in {"mkdir", "write"} /\ o[x] = "fail"
    \/ x = "clean" /\ o["mv"] = "fail"
\* remove_service_override ends at an exception and at a failed rm
UnoverrideEnds(o, x) == o[x] = "raise" \/ (x = "rm" /\ o[x] = "fail")
\* whether step x with the outcomes o ends the operation `kind`
Ends(kind, o, x) ==
    CASE kind = "deploy" -> DeployEnds(o, x)
      [] kind = "control" -> ControlEnds(o, x)
      [] kind = "override" -> OverrideEnds(o, x)
      [] kind = "unoverride" -> UnoverrideEnds(o, x)
      [] OTHER -> Raises(o, x)

\* Outcome vectors of an operation whose remote steps run in the order seq: at most
\* MaxFaults steps fail, only the steps in `steps` can fail, and a step the operation
\* never reaches (one after a step that ends it) is left "ok".  Session acquisition
\* either succeeds or raises.
Vectors(seq, steps, kind) ==
    {v : v \in
        {o \in [{seq[k] : k \in 1..Len(seq)} -> Outcomes] :
            /\ o["conn"] # "fail"
            /\ FaultCount(o) <= MaxFaults
            /\ \A k \in 1..Len(seq) :
                  /\ seq[k] \notin steps => o[seq[k]] = "ok"
                  /\ Ends(kind, o, seq[k]) => \A j \in (k + 1)..Len(seq) : o[seq[j]] = "ok"}}

DeployVectorsDry == Vectors(DeploySeq, {"conn"}, "deploy")
DeployVectorsPlain == Vectors(DeploySeq, {"conn", "ws", "rl", "en", "st"}, "deploy")
DeployVectorsTimer ==
    {v : v \in {o \in Vectors(DeploySeq, DeploySteps, "deploy") :
                    o["wt"] # "fail" => o["rm"] = "ok"}}
DeployAllOk == [x \in DeploySteps |-> "ok"]

\* an Optional[str] field that was left out (None)
NoValue == "None"
\* an Optional[TimerConfiguration]: the empty set is None, {t} carries the object t
NoTimerConfig == {}
TheTimer(tc) == CHOOSE t \in tc : TRUE

\* TimerConfiguration objects as submitted: the calendar, the cron expression and one
\* of the boot/activity-relative triggers, each given or left out
RawTimerConfigs ==
    [on_calendar : {NoValue, "daily"}, cron_expression : {NoValue, "@weekly"},
     on_boot_sec : {NoValue, "15min"}, accuracy_sec : {"1min"}, persistent : {FALSE}]

\* TimerConfiguration.validate_timer_schedule: pydantic validates the fields in the
\* order they are declared and info.data holds the fields validated so far;
\* on_calendar is declared first, cron_expression last
TimerFieldOrder == <<"on_calendar", "on_boot_sec", "cron_expression">>
InfoData(t, field) ==
    LET k == CHOOSE i \in 1..Len(TimerFieldOrder) : TimerFieldOrder[i] = field
    IN [f \in {TimerFieldOrder[i] : i \in 1..(k - 1)} |-> t[f]]
DataGet(data, f) == IF f \in DOMAIN data THEN data[f] ELSE NoValue
ValidateTimerSchedule(t) ==
    \A field \in {"on_calendar", "cron_expression"} :
        ~(field = "on_calendar" /\ DataGet(InfoData(t, field), "cron_expression") # NoValue)

\* EnhancedServiceCreateRequest.validate_timer_creation: timer_config is declared before
\* create_timer, so info.data holds it unless its own validation failed
ValidateTimerCreation_Skipped(create_timer, timer_config) == TRUE
ValidateTimerCreation(create_timer, timer_config) ==
    ~(create_timer /\ (timer_config = NoTimerConfig
                         \/ ~ValidateTimerSchedule(TheTimer(timer_config))))

\* the request bodies a client can submit (the fields the handlers branch on)
HostUsers == {"app"}
Requests ==
    [name : Bases, create_timer : BOOLEAN,
     timer_config : {NoTimerConfig} \cup {{t} : t \in RawTimerConfigs},
     auto_enable : {TRUE}, auto_start : {TRUE}, is_managed : BOOLEAN,
     user : {"", "ghost"}]

\* model validation of a ServiceDeployRequest body
ValidRequest(c) ==
    /\ c.timer_config # NoTimerConfig => ValidateTimerSchedule(TheTimer(c.timer_config))
    /\ ValidateTimerCreation(c.create_timer, c.timer_config)

\* EnhancedServiceCreateRequest objects: validate_timer_creation has passed, so
\* create_timer implies a timer_config; here the timer is a calendar one
CalendarTimer ==
    [on_calendar |-> "daily", cron_expression |-> NoValue, on_boot_sec |-> NoValue,
     accuracy_sec |-> "1min", persistent |-> FALSE]
Configs ==
    {v : v \in
    {c \in Requests : /\ ValidRequest(c)
                      /\ c.timer_config \in {NoTimerConfig, {CalendarTimer}}
                      /\ c.create_timer = (c.timer_config # NoTimerConfig)}}

\* _convert_cron_to_systemd, for the named schedules of its table
cron_patterns ==
    [x \in {"@yearly", "@annually", "@monthly", "@weekly", "@daily", "@midnight", "@hourly"} |->
        CASE x \in {"@yearly", "@annually"} -> "yearly"
          [] x = "@monthly" -> "monthly"
          [] x = "@weekly" -> "weekly"
          [] x \in {"@daily", "@midnight"} -> "daily"
          [] x = "@hourly" -> "hourly"]
ConvertCronToSystemd(cron) == cron_patterns[cron]

\* _convert_cron_to_systemd on an expression given by its whitespace-separated
\* fields (cron_expression.strip().split()); the text is the tuple of its pieces
days == <<"Sun", "Mon", "Tue", "Wed", "Thu", "Fri", "Sat">>
Digits == <<"0", "1", "2", "3", "4", "5", "6">>
\* int(weekday) for a one-digit weekday
IntOf(d) == (CHOOSE k \in 1..Len(Digits) : Digits[k] = d) - 1
IsWeekdayDigit(d) == \E k \in 1..Len(Digits) : Digits[k] = d
ConvertCronFields_DayBeforeMonth(parts) ==
    IF Len(parts) = 1 /\ parts[1] \in DOMAIN cron_patterns
    THEN [ok |-> TRUE, text |-> <<cron_patterns[parts[1]]>>]
    ELSE IF Len(parts) # 5 THEN [ok |-> FALSE, text |-> <<>>]
    ELSE LET minute == parts[1]
             hour == parts[2]
             day == parts[3]
             month == parts[4]
             weekday == parts[5]
         IN [ok |-> TRUE,
             text |-> (IF weekday = "*" THEN <<>>
                       ELSE IF IsWeekdayDigit(weekday) THEN <<days[IntOf(weekday) + 1], " ">>
                       ELSE <<weekday, " ">>)
                      \o <<"*", "-", day, "-", month, " ", hour, ":", minute, ":00">>]
ConvertCronFields(parts) ==
    IF Len(parts) = 1 /\ parts[1] \in DOMAIN cron_patterns
    THEN [ok |-> TRUE, text |-> <<cron_patterns[parts[1]]>>]
    ELSE IF Len(parts) # 5 THEN [ok |-> FALSE, text |-> <<>>]
    ELSE LET minute == parts[1]
             hour == parts[2]
             day == parts[3]
             month == parts[4]
             weekday == parts[5]
         IN [ok |-> TRUE,
             text |-> (IF weekday = "*" THEN <<>>
                       ELSE IF IsWeekdayDigit(weekday) THEN <<days[IntOf(weekday) + 1], " ">>
                       ELSE <<weekday, " ">>)
                      \o <<"*", "-", month, "-", day, " ", hour, ":", minute, ":00">>]

\* Texts are the list `lines` a renderer joins with "\n"; a line is the tuple of
\* its pieces, EmptyLine the empty string
Blank == <<"">>
\* ' '.join(units)
RECURSIVE Join(_)
Join(l) ==
    IF l = <<>> THEN <<>>
    ELSE IF Len(l) = 1 THEN <<l[1]>>
    ELSE <<l[1], " ">> \o Join(Tail(l))
\* lines.append(f"{key}{value}") when the value is given
Directive(key, value) == IF value # NoValue THEN <<<<key, value>>>> ELSE <<>>
ListDirective(key, l) == IF l # <<>> THEN << <<key>> \o Join(l) >> ELSE <<>>

\* the directives _generate_systemd_timer_file writes under [Timer]
TimerDirectives(t) ==
    (IF t.on_calendar # NoValue THEN <<<<"OnCalendar=", t.on_calendar>>>>
     ELSE IF t.cron_expression # NoValue
     THEN <<<<"OnCalendar=", ConvertCronToSystemd(t.cron_expression)>>>>
     ELSE <<>>)
    \o Directive("OnBootSec=", t.on_boot_sec)
    \o Directive("AccuracySec=", t.accuracy_sec)
    \o (IF t.persistent THEN <<<<"Persistent=yes">>>> ELSE <<>>)
\* _generate_systemd_timer_file
GenerateSystemdTimerFile(service_name, t) ==
    << <<"[Unit]">>, <<"Description=Timer for ", service_name>>,
       <<"Requires=", service_name, ".service">>, Blank, <<"[Timer]">> >>
    \o TimerDirectives(t)
    \o << Blank, <<"[Install]">>, <<"WantedBy=timers.target">> >>

\* the service_config dicts the service renderer is given (the optional directives
\* it does not list here are appended the same way as exec_stop and user)
ServiceDicts ==
    [description : {NoValue, "web"}, after_units : {<<>>, <<"network.target", "db.service">>},
     systemd_type : {"simple"}, exec_start : {"/bin/a"}, exec_stop : {NoValue, "/bin/stop"},
     restart_policy : {"on-failure"}, restart_sec : {NoValue, "3"}, user : {NoValue, "app"},
     standard_output : {"journal"}, standard_error : {"journal"},
     wanted_by : {<<"multi-user.target">>}, also : {<<>>, <<"x.socket">>}]
\* _generate_systemd_service_file
GenerateSystemdServiceFile_Stamped(c) ==
    << <<"# generated at ", clock>>, <<"[Unit]">> >>
    \o Directive("Description=", c.description)
    \o << Blank, <<"[Service]">>, <<"ExecStart=", c.exec_start>> >>
GenerateSystemdServiceFile(c) ==
    << <<"[Unit]">> >>
    \o Directive("Description=", c.description)
    \o ListDirective("After=", c.after_units)
    \o << Blank, <<"[Service]">>, <<"Type=", c.systemd_type>>,
          <<"ExecStart=", c.exec_start>> >>
    \o Directive("ExecStop=", c.exec_stop)
    \o << <<"Restart=", c.restart_policy>> >>
    \o Directive("RestartSec=", c.restart_sec)
    \o Directive("User=", c.user)
    \o << <<"StandardOutput=", c.standard_output>>,
          <<"StandardError=", c.standard_error>>,
          Blank, <<"[Install]">>, <<"WantedBy=">> \o Join(c.wanted_by) >>
    \o ListDirective("Also=", c.also)

\* the steps after the files are in place: daemon-reload, enable, start
TailSteps(cfg) ==
    <<"rl">> \o (IF cfg.auto_enable THEN <<"en">> ELSE <<>>)
             \o (IF cfg.auto_start THEN <<"st">> ELSE <<>>)
TailRaises(cfg, o) == \E k \in 1..Len(TailSteps(cfg)) : o[TailSteps(cfg)[k]] = "raise"
\* number of tail steps executed: up to and including the first that raises
TailRun(cfg, o) ==
    IF TailRaises(cfg, o)
    THEN CHOOSE k \in 1..Len(TailSteps(cfg)) :
            /\ o[TailSteps(cfg)[k]] = "raise"
            /\ \A j \in 1..(k - 1) : o[TailSteps(cfg)[j]] # "raise"
    ELSE Len(TailSteps(cfg))

\* (success, created_files, systemd_files) of create_systemd_service, the host's files
\* afterwards, the files this call wrote, and the number of remote calls it made
CreateSystemdService(fs, cfg, dry_run, o) ==
    LET svc == <<cfg.name, "service">>
        tmr == <<cfg.name, "timer">>
        hasTimer == cfg.create_timer /\ cfg.timer_config # NoTimerConfig
        rendered == {svc} \cup (IF hasTimer THEN {tmr} ELSE {})
        text == IF hasTimer
                THEN GenerateSystemdTimerFile(cfg.name, TheTimer(cfg.timer_config))
                ELSE <<>>
        res0 == [ok |-> FALSE, created_files |-> {}, rendered |-> {}, fs |-> fs,
                 written |-> {}, remote |-> 1, raised |-> FALSE, timer_text |-> <<>>]
        res == [res0 EXCEPT !.timer_text = text]
    IN
    IF o["conn"] = "raise" THEN [res0 EXCEPT !.raised = TRUE]
    ELSE IF dry_run THEN [res EXCEPT !.ok = TRUE, !.rendered = rendered]
    ELSE IF o["ws"] = "fail" THEN [res EXCEPT !.rendered = rendered, !.remote = 2]
    ELSE IF o["ws"] = "raise" THEN [res EXCEPT !.remote = 2, !.raised = TRUE]
    ELSE IF hasTimer /\ o["wt"] = "fail" THEN
        \* clean up the service file; the result of rm -f is not looked at
        [res EXCEPT !.rendered = (IF o["rm"] = "raise" THEN {} ELSE rendered),
                    !.fs = (IF o["rm"] = "ok" THEN fs \ {svc} ELSE fs \cup {svc}),
                    !.written = {svc}, !.remote = 4, !.raised = (o["rm"] = "raise")]
    ELSE IF hasTimer /\ o["wt"] = "raise" THEN
        [res EXCEPT !.fs = fs \cup {svc}, !.written = {svc}, !.remote = 3, !.raised = TRUE]
    ELSE
        LET placed == rendered
            n == (IF hasTimer THEN 3 ELSE 2) + TailRun(cfg, o)
        IN IF TailRaises(cfg, o)
           THEN [res EXCEPT !.fs = fs \cup placed, !.written = placed, !.remote = n,
                            !.raised = TRUE]
           ELSE [res EXCEPT !.ok = TRUE, !.created_files = placed, !.rendered = rendered,
                            !.fs = fs \cup placed, !.written = placed, !.remote = n]

\* errors validate_service_configuration reports against the host when its commands run:
\* the unit name is taken, or the user does not exist
ValidationErrors(fs, cfg) ==
    (IF <<cfg.name, "service">> \in fs THEN {"exists"} ELSE {})
    \cup (IF cfg.user # "" /\ cfg.user \notin HostUsers THEN {"user"} ELSE {})

----------------------------------------------------------------------------
(* Deployment: ServiceService.create_custom_service *)

CreateCustomService(cfg, dry_run, o) ==
    LET r == CreateSystemdService(files, cfg, dry_run, o)
        rep == [NoOp EXCEPT !.op = "deploy", !.unit = UnitName(cfg.name),
                            !.dry_run = dry_run,
                            !.timer = (cfg.create_timer /\ cfg.timer_config # NoTimerConfig),
                            !.create_timer = cfg.create_timer,
                            !.timer_config = cfg.timer_config,
                            !.cfg_errors = (ValidationErrors(files, cfg) # {})]
        out == [rep EXCEPT !.remote = r.remote, !.ssh_ok = r.ok, !.written = r.written,
                           !.rendered = r.rendered, !.timer_text = r.timer_text]
    IN
    /\ nextId <= MaxId
    /\ IF ~server.is_enabled
       THEN /\ last' = [rep EXCEPT !.outcome = "failure"]
            /\ UNCHANGED <<services, nextId, files>>
       ELSE IF (\E s \in services : s.name = UnitName(cfg.name)) /\ ~dry_run
       THEN /\ last' = [rep EXCEPT !.outcome = "failure"]
            /\ UNCHANGED <<services, nextId, files>>
       ELSE /\ files' = r.fs
            /\ IF ~r.ok
               THEN /\ last' = [out EXCEPT !.outcome = "failure"]
                    /\ UNCHANGED <<services, nextId>>
               ELSE IF dry_run
               THEN /\ last' = [out EXCEPT !.outcome = "success"]
                    /\ UNCHANGED <<services, nextId>>
               ELSE /\ services' = services \cup
                          {[id |-> nextId, name |-> UnitName(cfg.name),
                            service_type |-> "systemd", creation_source |-> "created",
                            is_managed |-> cfg.is_managed, is_timer |-> cfg.create_timer,
                            timer_schedule |->
                                (IF cfg.timer_config # NoTimerConfig
                                 THEN TheTimer(cfg.timer_config).on_calendar
                                 ELSE NoValue),
                            status |-> IF cfg.auto_start THEN "ACTIVE" ELSE "INACTIVE",
                            main_pid |-> NoPid]}
                    /\ nextId' = nextId + 1
                    /\ last' = [out EXCEPT !.outcome = "success",
                                           !.created_files = r.created_files,
                                           !.rec = nextId]
    /\ UNCHANGED server
    /\ UNCHANGED <<poolVars, ovrVars, txVars>>

\* the outcome vectors that matter for a request: none when it is rejected locally
DeployVectors(cfg, dry_run) ==
    IF ~server.is_enabled \/ ((\E s \in services : s.name = UnitName(cfg.name)) /\ ~dry_run)
    THEN {DeployAllOk}
    ELSE IF dry_run THEN DeployVectorsDry
    ELSE IF cfg.create_timer THEN DeployVectorsTimer ELSE DeployVectorsPlain

\* a deploy request arrives and its remote steps end one way or another
Deploy(cfg, dry_run) ==
    \E o \in DeployVectors(cfg, dry_run) : CreateCustomService(cfg, dry_run, o)

----------------------------------------------------------------------------
(* Removal: SSHConnectionManager.remove_systemd_service *)

RemoveSteps == {"conn", "stop", "dis", "stop_t", "dis_t", "rm_svc", "rm_tmr", "rl"}

\* the remote steps in program order
RemoveSeq(remove_timer) ==
    <<"conn", "stop", "dis">>
    \o (IF remove_timer THEN <<"stop_t", "dis_t">> ELSE <<>>)
    \o <<"rm_svc">>
    \o (IF remove_timer THEN <<"rm_tmr">> ELSE <<>>)
    \o <<"rl">>

RemoveVectorsPlain ==
    Vectors(RemoveSeq(TRUE), {"conn", "stop", "dis", "rm_svc", "rl"}, "remove")
RemoveVectorsTimer == Vectors(RemoveSeq(TRUE), RemoveSteps, "remove")
RemoveAllOk == [x \in RemoveSteps |-> "ok"]

\* number of steps of a sequence executed: up to and including the first that raises
StepsRun(seq, o) ==
    IF \E k \in 1..Len(seq) : o[seq[k]] = "raise"
    THEN CHOOSE k \in 1..Len(seq) :
            /\ o[seq[k]] = "raise"
            /\ \A j \in 1..(k - 1) : o[seq[j]] # "raise"
    ELSE Len(seq)
\* the step was executed and exited zero
RanOk(seq, o, x) == \E k \in 1..StepsRun(seq, o) : seq[k] = x /\ o[x] = "ok"

\* (success) of remove_systemd_service and the host's files afterwards; no result
\* of a command is looked at, only an exception makes the call fail
RemoveSystemdService(fs, base, remove_timer, o) ==
    LET seq == RemoveSeq(remove_timer)
    IN [ok |-> \A k \in 1..Len(seq) : o[seq[k]] # "raise",
        fs |-> (fs \ (IF RanOk(seq, o, "rm_svc") THEN {<<base, "service">>} ELSE {}))
                   \ (IF RanOk(seq, o, "rm_tmr") THEN {<<base, "timer">>} ELSE {}),
        remote |-> StepsRun(seq, o),
        raised |-> \E k \in 1..Len(seq) : o[seq[k]] = "raise"]

\* the file-deletion steps ran and exited zero
DeletionOk(remove_timer, o) ==
    /\ RanOk(RemoveSeq(remove_timer), o, "rm_svc")
    /\ remove_timer => RanOk(RemoveSeq(remove_timer), o, "rm_tmr")
\* some stop / disable / daemon-reload step failed and nothing else did
BestEffortOnly(remove_timer, o) ==
    /\ o["conn"] = "ok"
    /\ o["rm_svc"] = "ok"
    /\ remove_timer => o["rm_tmr"] = "ok"
    /\ \E k \in 1..Len(RemoveSeq(remove_timer)) : o[RemoveSeq(remove_timer)[k]] # "ok"

----------------------------------------------------------------------------
(* Removal: ServiceService.remove_custom_service *)

Row(id) == CHOOSE s \in services : s.id = id
RowExists(id) == \E s \in services : s.id = id

\* the request targets an unmanaged unit or a unit of a disabled server
Barred(id) == RowExists(id) /\ (~Row(id).is_managed \/ ~server.is_enabled)

\* the row is one this system created (service.is_custom_created)
IsCustomCreated_Always(s) == TRUE
IsCustomCreated(s) == s.creation_source = "created"

RemoveCustomService(id, remove_files, o) ==
    LET rep == [NoOp EXCEPT !.op = "remove", !.barred = Barred(id),
                            !.remove_files = remove_files]
    IN
    /\ IF ~RowExists(id)
       THEN /\ last' = [rep EXCEPT !.outcome = "failure"]
            /\ UNCHANGED <<services, files>>
       ELSE LET s == Row(id)
                r == RemoveSystemdService(files, CleanName(s.name), s.is_timer, o)
                rep2 == [rep EXCEPT !.unit = s.name, !.timer = s.is_timer]
            IN IF ~IsCustomCreated(s)
               THEN /\ last' = [rep2 EXCEPT !.outcome = "failure"]
                    /\ UNCHANGED <<services, files>>
               ELSE /\ services' = services \ {s}
                    /\ IF remove_files /\ server.is_enabled
                       THEN /\ files' = r.fs
                            /\ last' = [rep2 EXCEPT !.outcome = "success",
                                          !.remote = r.remote, !.ssh_ok = r.ok,
                                          !.del_ok = DeletionOk(s.is_timer, o),
                                          !.besteffort_only = BestEffortOnly(s.is_timer, o)]
                       ELSE /\ files' = files
                            /\ last' = [rep2 EXCEPT !.outcome = "success"]
    /\ UNCHANGED <<server, nextId>>
    /\ UNCHANGED <<poolVars, ovrVars, txVars>>

\* the outcome vectors that matter for a request: none when no remote step is run
RemoveVectors(id, remove_files) ==
    IF RowExists(id) /\ IsCustomCreated(Row(id)) /\ server.is_enabled /\ remove_files
    THEN (IF Row(id).is_timer THEN RemoveVectorsTimer ELSE RemoveVectorsPlain)
    ELSE {RemoveAllOk}

\* a remove request arrives and its remote steps end one way or another
\* the ids requests are sent for: every row, and one id that has no row
Ids == 1..(MaxId + 1)
TargetIds == {s.id : s \in services} \cup {nextId}

Remove(id, remove_files) ==
    /\ id \in TargetIds
    /\ \E o \in RemoveVectors(id, remove_files) : RemoveCustomService(id, remove_files, o)

----------------------------------------------------------------------------
(* Control and logs: ServiceService.control_service, get_service_logs *)

ValidActions == {"start", "stop", "restart", "reload", "enable", "disable"}
ControlSteps == {"conn", "cmd", "rconn", "show", "commit"}
ControlSeq == <<"conn", "cmd", "rconn", "show", "commit">>
ControlVectorsRefresh ==
    {v : v \in {o \in Vectors(ControlSeq, ControlSteps, "control") :
                    o["rconn"] # "fail" /\ o["commit"] # "fail"}}
ControlVectorsPlain == Vectors(ControlSeq, {"conn", "cmd"}, "control")
ControlAllOk == [x \in ControlSteps |-> "ok"]
LogVectors == Vectors(<<"conn", "cmd">>, {"conn", "cmd"}, "logs")

\* (success) of SSHConnectionManager.control_service and its number of remote calls
\* raised: an exception reached the `except Exception` clause of the function
SshControlService_NoCheck(action, o) ==
    IF o["conn"] = "raise" THEN [ok |-> FALSE, remote |-> 1, raised |-> TRUE]
    ELSE [ok |-> o["cmd"] = "ok", remote |-> 2, raised |-> (o["cmd"] = "raise")]
SshControlService(action, o) ==
    IF action \notin ValidActions THEN [ok |-> FALSE, remote |-> 0, raised |-> FALSE]
    ELSE IF o["conn"] = "raise" THEN [ok |-> FALSE, remote |-> 1, raised |-> TRUE]
    ELSE [ok |-> o["cmd"] = "ok", remote |-> 2, raised |-> (o["cmd"] = "raise")]

\* _refresh_service_status: the ServiceStatus stored, "" when nothing was stored;
\* failed names the step that went wrong (get_connection, _get_service_details,
\* db.commit); raised: the exception left the function
RefreshServiceStatus_NoExcept(o, a) ==
    IF o["rconn"] = "raise"
    THEN [status |-> "", remote |-> 1, failed |-> "session", raised |-> TRUE,
          main_pid |-> NoPid]
    ELSE IF o["show"] # "ok"
    THEN [status |-> "", remote |-> 2, failed |-> "detail", raised |-> FALSE,
          main_pid |-> NoPid]
    ELSE IF o["commit"] = "raise"
    THEN [status |-> "", remote |-> 2, failed |-> "persist", raised |-> TRUE,
          main_pid |-> NoPid]
    ELSE [status |-> MapServiceStatus(a), remote |-> 2, failed |-> "no", raised |-> FALSE,
          main_pid |-> ParseMainPid(HostMainPid(a))]
RefreshServiceStatus(o, a) ==
    IF o["rconn"] = "raise"
    THEN [status |-> "", remote |-> 1, failed |-> "session", raised |-> FALSE,
          main_pid |-> NoPid]
    ELSE IF o["show"] # "ok"
    THEN [status |-> "", remote |-> 2, failed |-> "detail", raised |-> FALSE,
          main_pid |-> NoPid]
    ELSE IF o["commit"] = "raise"
    THEN [status |-> "", remote |-> 2, failed |-> "persist", raised |-> FALSE,
          main_pid |-> NoPid]
    ELSE [status |-> MapServiceStatus(a), remote |-> 2, failed |-> "no", raised |-> FALSE,
          main_pid |-> ParseMainPid(HostMainPid(a))]

ControlService(id, action, o, a) ==
    LET rep == [NoOp EXCEPT !.op = "control", !.barred = Barred(id), !.action = action]
    IN
    /\ IF ~RowExists(id) \/ ~server.is_enabled \/ ~Row(id).is_managed
       THEN \* raise ValueError
            /\ last' = [rep EXCEPT !.outcome = "ValueError"]
            /\ UNCHANGED services
       ELSE LET s == Row(id)
                r == SshControlService(action, o)
                f == RefreshServiceStatus(o, a)
                refresh == r.ok /\ action \in {"start", "stop", "restart"}
            IN /\ services' = IF refresh /\ f.status # ""
                              THEN (services \ {s}) \cup {UpdateStatus(s, f.status, f.main_pid)}
                              ELSE services
               \* an exception out of the refresh would reach `except Exception`
               /\ last' = [rep EXCEPT !.outcome = (IF r.ok /\ ~(refresh /\ f.raised)
                                                   THEN "success" ELSE "failure"),
                                      !.unit = s.name, !.ssh_ok = r.ok,
                                      !.refresh = (IF refresh THEN f.failed ELSE "none"),
                                      !.remote = r.remote + (IF refresh THEN f.remote ELSE 0)]
    /\ UNCHANGED <<server, nextId, files>>
    /\ UNCHANGED <<poolVars, ovrVars, txVars>>

\* the outcome vectors that matter for a request: none when it is rejected locally
ControlVectors(id, action) ==
    IF ~RowExists(id) \/ ~server.is_enabled \/ ~Row(id).is_managed \/ action \notin ValidActions
    THEN {ControlAllOk}
    ELSE IF action \in {"start", "stop", "restart"}
    THEN ControlVectorsRefresh ELSE ControlVectorsPlain
\* the ActiveState values the refresh can read: one when nothing is read
ReadStates(action, o) ==
    IF action \in {"start", "stop", "restart"} /\ o["show"] = "ok"
    THEN ActiveStates ELSE {"active"}

\* a control request arrives and its remote steps end one way or another
Control(id, action) ==
    /\ id \in TargetIds
    /\ \E o \in ControlVectors(id, action) :
          \E a \in ReadStates(action, o) : ControlService(id, action, o, a)

GetServiceLogs(id, o) ==
    LET rep == [NoOp EXCEPT !.op = "logs", !.barred = Barred(id)]
    IN
    /\ IF ~RowExists(id) \/ ~server.is_enabled
       THEN \* raise ValueError
            last' = [rep EXCEPT !.outcome = "ValueError"]
       ELSE IF o["conn"] = "raise"
       THEN last' = [rep EXCEPT !.outcome = "failure", !.unit = Row(id).name, !.remote = 1]
       ELSE last' = [rep EXCEPT !.outcome = (IF o["cmd"] = "ok" THEN "success" ELSE "failure"),
                                !.unit = Row(id).name, !.ssh_ok = (o["cmd"] = "ok"),
                                !.remote = 2]
    /\ UNCHANGED <<server, services, nextId, files>>
    /\ UNCHANGED <<poolVars, ovrVars, txVars>>

Logs(id) ==
    /\ id \in TargetIds
    /\ \E o \in LogVectors : GetServiceLogs(id, o)

----------------------------------------------------------------------------
(* Override files: SSHConnectionManager.create_service_override,             *)
(* remove_service_override, get_service_override_content                     *)

MaxClock == 1
Clock == 0..MaxClock
MaxOvrFaults == 1

\* A text is the sequence of its lines (the text split at "\n"); a line is a
\* tuple of its tokens.  NoFile is the absence of a file: no file the model
\* writes is empty.
NoFile == <<>>
EmptyLine == <<"">>
Terminator == <<"EOF">>

\* ServiceOverrideConfig objects: exec_start is an unconstrained string, given by
\* its lines; NoCfg stands for None
OvrValues == {<<"/bin/a">>, <<"/bin/a", "EOF", "exit 0">>}
OvrConfigs == [exec_start : OvrValues]
NoCfg == [exec_start |-> <<>>]

\* _generate_override_file_content: the override dict holds the keys that were given
\* (model_dump(exclude_none=True)); a section is added when it has directives, so an
\* exec_start alone gives "[Service]", "ExecStart=<value>", ""
OverrideUnitSection(cfg) ==
    IF "description" \in DOMAIN cfg THEN << <<"Description=", cfg["description"]>> >> ELSE <<>>
OverrideServiceSection(cfg) ==
    IF "exec_start" \in DOMAIN cfg
    THEN LET v == cfg["exec_start"]
         IN << <<"ExecStart=", v[1]>> >> \o [k \in 1..(Len(v) - 1) |-> <<v[k + 1]>>]
    ELSE <<>>
OverrideInstallSection(cfg) ==
    IF "wanted_by" \in DOMAIN cfg THEN << <<"WantedBy=">> \o Join(cfg["wanted_by"]) >> ELSE <<>>
GenerateOverrideFileContent(cfg) ==
    (IF OverrideUnitSection(cfg) # <<>>
     THEN << <<"[Unit]">> >> \o OverrideUnitSection(cfg) \o <<EmptyLine>> ELSE <<>>)
    \o (IF OverrideServiceSection(cfg) # <<>>
        THEN << <<"[Service]">> >> \o OverrideServiceSection(cfg) \o <<EmptyLine>> ELSE <<>>)
    \o (IF OverrideInstallSection(cfg) # <<>>
        THEN << <<"[Install]">> >> \o OverrideInstallSection(cfg) ELSE <<>>)

\* the shell reading  cat > tmp << 'EOF' \n text \n EOF : the here-document is
\* the lines before the first terminator line, the rest runs as commands
HereDocEnd(text) ==
    IF \E k \in 1..Len(text) : text[k] = Terminator
    THEN CHOOSE k \in 1..Len(text) :
            /\ text[k] = Terminator
            /\ \A j \in 1..(k - 1) : text[j] # Terminator
    ELSE Len(text) + 1
\* the file cat writes: every line of the here-document followed by a newline
HereDocFile(text) == SubSeq(text, 1, HereDocEnd(text) - 1) \o <<EmptyLine>>
\* the exit status is that of the last command run: zero after the cat alone or
\* when a later line exits the shell with 0, non-zero when the closing EOF is
\* run as a command
HereDocOk(text) ==
    \/ HereDocEnd(text) = Len(text) + 1
    \/ \E k \in (HereDocEnd(text) + 1)..Len(text) : text[k] = <<"exit 0">>

\* str.rstrip as callers compare texts: trailing empty lines dropped
RECURSIVE RStrip(_)
RStrip(text) ==
    IF text # <<>> /\ text[Len(text)] = EmptyLine
    THEN RStrip(SubSeq(text, 1, Len(text) - 1))
    ELSE text

OverrideSteps == {"conn", "test", "cp", "mkdir", "write", "mv", "clean", "chmod", "rl"}
OverrideSeq == <<"conn", "test", "cp", "mkdir", "write", "mv", "clean", "chmod", "rl">>
\* `test -f` answers by the file system unless the transport fails
OverrideVectorsAll ==
    {v : v \in {o \in Vectors(OverrideSeq, OverrideSteps, "override") :
                    /\ FaultCount(o) <= MaxOvrFaults
                    /\ o["test"] # "fail"
                    /\ o["mv"] # "fail" => o["clean"] = "ok"}}
OverrideAllOk == [x \in OverrideSteps |-> "ok"]

\* (success, override_file_path set, backup_file) of create_service_override at
\* time `now`, the host's files afterwards and the number of remote calls;
\* backup_file is the timestamp of the backup path, -1 for None
CreateServiceOverride(ovr, bak, tmp, base, cfg, create_backup, now, o) ==
    LET exists == ovr[base] # NoFile
        didCp == create_backup /\ exists
        backup_file == IF didCp THEN now ELSE -1
        bak1 == IF didCp /\ o["cp"] = "ok"
                THEN [bak EXCEPT ![<<base, now>>] = ovr[base]] ELSE bak
        n0 == 1 + (IF create_backup THEN 1 ELSE 0) + (IF didCp THEN 1 ELSE 0)
        text == GenerateOverrideFileContent(cfg)
        tmp1 == [tmp EXCEPT ![<<base, now>>] = HereDocFile(text)]
        tmp2 == [tmp EXCEPT ![<<base, now>>] = NoFile]
        ovr1 == [ovr EXCEPT ![base] = HereDocFile(text)]
        Raised(o2, b2, t2, n) ==
            [ok |-> FALSE, path |-> FALSE, backup_file |-> -1,
             ovr |-> o2, bak |-> b2, tmp |-> t2, remote |-> n, raised |-> TRUE]
        Ret(k, o2, b2, t2, n) ==
            [ok |-> k, path |-> TRUE, backup_file |-> backup_file,
             ovr |-> o2, bak |-> b2, tmp |-> t2, remote |-> n, raised |-> FALSE]
    IN
    IF o["conn"] = "raise" THEN Raised(ovr, bak, tmp, 1)
    ELSE IF create_backup /\ o["test"] = "raise" THEN Raised(ovr, bak, tmp, 2)
    ELSE IF didCp /\ o["cp"] = "raise" THEN Raised(ovr, bak, tmp, n0)
    ELSE IF o["mkdir"] = "raise" THEN Raised(ovr, bak1, tmp, n0 + 1)
    ELSE IF o["mkdir"] = "fail" THEN Ret(FALSE, ovr, bak1, tmp, n0 + 1)
    ELSE IF o["write"] = "raise" THEN Raised(ovr, bak1, tmp, n0 + 2)
    ELSE IF o["write"] = "fail" THEN Ret(FALSE, ovr, bak1, tmp, n0 + 2)
    ELSE IF ~HereDocOk(text) THEN Ret(FALSE, ovr, bak1, tmp1, n0 + 2)
    ELSE IF o["mv"] = "raise" THEN Raised(ovr, bak1, tmp1, n0 + 3)
    ELSE IF o["mv"] = "fail"
    THEN IF o["clean"] = "raise" THEN Raised(ovr, bak1, tmp1, n0 + 4)
         ELSE Ret(FALSE, ovr, bak1, IF o["clean"] = "ok" THEN tmp2 ELSE tmp1, n0 + 4)
    ELSE IF o["chmod"] = "raise" THEN Raised(ovr1, bak1, tmp2, n0 + 4)
    ELSE IF o["rl"] = "raise" THEN Raised(ovr1, bak1, tmp2, n0 + 5)
    ELSE Ret(o["rl"] = "ok", ovr1, bak1, tmp2, n0 + 5)

UnoverrideSteps == {"conn", "test", "rm", "chk", "rmdir", "rl"}
UnoverrideSeq == <<"conn", "test", "rm", "chk", "rmdir", "rl">>
\* `test -f` and the emptiness check answer by the file system unless the
\* transport fails
UnoverrideVectorsAll ==
    {v : v \in {o \in Vectors(UnoverrideSeq, UnoverrideSteps, "unoverride") :
                    /\ FaultCount(o) <= MaxOvrFaults
                    /\ o["test"] # "fail" /\ o["chk"] # "fail"}}
UnoverrideAllOk == [x \in UnoverrideSteps |-> "ok"]

\* the override directory holds nothing once override.conf is gone
DirEmpty(bak, base) == \A t \in Clock : bak[<<base, t>>] = NoFile

\* `test -f {override_file}`: result.ok of the existence check
OverrideFileExists_Always(ovr, base) == TRUE
OverrideFileExists(ovr, base) == ovr[base] # NoFile

\* (success) of remove_service_override(remove_backup=False), the override files
\* afterwards and the number of remote calls: get_connection is the first, the
\* existence check the second, rm -f the third
RemoveServiceOverride_IgnoresRm(ovr, bak, base, o) ==
    LET ovr1 == IF o["rm"] = "ok" THEN [ovr EXCEPT ![base] = NoFile] ELSE ovr
        n == IF DirEmpty(bak, base) THEN 5 ELSE 4
    IN
    IF o["conn"] = "raise" THEN [ok |-> FALSE, ovr |-> ovr, remote |-> 1, raised |-> TRUE]
    ELSE IF o["test"] = "raise" THEN [ok |-> FALSE, ovr |-> ovr, remote |-> 2, raised |-> TRUE]
    ELSE IF ~OverrideFileExists(ovr, base)
         THEN [ok |-> TRUE, ovr |-> ovr, remote |-> 2, raised |-> FALSE]
    ELSE IF o["rm"] = "raise" THEN [ok |-> FALSE, ovr |-> ovr, remote |-> 3, raised |-> TRUE]
    ELSE IF o["chk"] = "raise" THEN [ok |-> FALSE, ovr |-> ovr1, remote |-> 4, raised |-> TRUE]
    ELSE IF DirEmpty(bak, base) /\ o["rmdir"] = "raise"
         THEN [ok |-> FALSE, ovr |-> ovr1, remote |-> 5, raised |-> TRUE]
    ELSE [ok |-> o["rl"] = "ok", ovr |-> ovr1, remote |-> n + 1, raised |-> (o["rl"] = "raise")]
RemoveServiceOverride(ovr, bak, base, o) ==
    LET ovr1 == [ovr EXCEPT ![base] = NoFile]
        n == IF DirEmpty(bak, base) THEN 5 ELSE 4
    IN
    IF o["conn"] = "raise" THEN [ok |-> FALSE, ovr |-> ovr, remote |-> 1, raised |-> TRUE]
    ELSE IF o["test"] = "raise" THEN [ok |-> FALSE, ovr |-> ovr, remote |-> 2, raised |-> TRUE]
    ELSE IF ~OverrideFileExists(ovr, base)
         THEN [ok |-> TRUE, ovr |-> ovr, remote |-> 2, raised |-> FALSE]
    ELSE IF o["rm"] # "ok"
         THEN [ok |-> FALSE, ovr |-> ovr, remote |-> 3, raised |-> (o["rm"] = "raise")]
    ELSE IF o["chk"] = "raise" THEN [ok |-> FALSE, ovr |-> ovr1, remote |-> 4, raised |-> TRUE]
    ELSE IF DirEmpty(bak, base) /\ o["rmdir"] = "raise"
         THEN [ok |-> FALSE, ovr |-> ovr1, remote |-> 5, raised |-> TRUE]
    ELSE [ok |-> o["rl"] = "ok", ovr |-> ovr1, remote |-> n + 1, raised |-> (o["rl"] = "raise")]

\* `sudo cat` exits by the file system unless the transport fails
ReadVectors ==
    {v : v \in {o \in Vectors(<<"conn", "cat">>, {"conn", "cat"}, "read") : o["cat"] # "fail"}}

\* (success, override_content) of get_service_override_content: the stdout of
\* `sudo cat`, None (NoFile) when cat exits non-zero
GetServiceOverrideContent(ovr, base, o) ==
    IF o["conn"] = "raise" \/ o["cat"] = "raise" THEN [ok |-> FALSE, content |-> NoFile]
    ELSE IF o["cat"] = "fail" \/ ovr[base] = NoFile THEN [ok |-> TRUE, content |-> NoFile]
    ELSE [ok |-> TRUE, content |-> ovr[base]]

----------------------------------------------------------------------------
(* Override handlers: ServiceService.update_service, rollback_service_configuration *)

\* update_service with an override_config and validate_only=False
UpdateService(id, cfg, apply_immediately, create_backup, o) ==
    LET rep == [NoOp EXCEPT !.op = "update", !.barred = Barred(id),
                            !.create_backup = create_backup]
    IN
    /\ IF ~RowExists(id) \/ ~server.is_enabled \/ ~Row(id).is_managed
       THEN /\ last' = [rep EXCEPT !.outcome = "failure"]
            /\ UNCHANGED <<overrides, backups, tmpfiles, override_config>>
       ELSE LET s == Row(id)
                base == CleanName(s.name)
                r == CreateServiceOverride(overrides, backups, tmpfiles, base, cfg,
                                           create_backup, clock, o)
                rep2 == [rep EXCEPT !.unit = s.name]
            IN IF ~apply_immediately
               THEN /\ last' = [rep2 EXCEPT !.outcome = "success"]
                    /\ UNCHANGED <<overrides, backups, tmpfiles, override_config>>
               ELSE /\ overrides' = r.ovr
                    /\ backups' = r.bak
                    /\ tmpfiles' = r.tmp
                    /\ override_config' = IF r.ok THEN [override_config EXCEPT ![id] = cfg]
                                          ELSE override_config
                    /\ last' = [rep2 EXCEPT
                                  !.outcome = (IF r.ok THEN "success" ELSE "failure"),
                                  !.applied = r.ok, !.ssh_ok = r.ok, !.remote = r.remote,
                                  !.backup_file = r.backup_file]
    /\ UNCHANGED <<server, services, nextId, files, clock>>
    /\ UNCHANGED <<txVars, poolVars>>

\* update_service with a request that carries is_managed and nothing else: no
\* override block, the flag is assigned and committed
UpdateManaged_NoManagedCheck(id, is_managed) ==
    LET rep == [NoOp EXCEPT !.op = "update", !.barred = Barred(id)]
    IN
    /\ id \in TargetIds
    /\ IF ~RowExists(id) \/ ~server.is_enabled
       THEN /\ last' = [rep EXCEPT !.outcome = "failure"]
            /\ UNCHANGED services
       ELSE /\ services' = (services \ {Row(id)})
                              \cup {[Row(id) EXCEPT !.is_managed = is_managed]}
            /\ last' = [rep EXCEPT !.outcome = "success", !.unit = Row(id).name]
    /\ UNCHANGED <<server, nextId, files>>
    /\ UNCHANGED <<txVars, poolVars, ovrVars>>
UpdateManaged(id, is_managed) ==
    LET rep == [NoOp EXCEPT !.op = "update", !.barred = Barred(id)]
    IN
    /\ id \in TargetIds
    /\ IF ~RowExists(id) \/ ~server.is_enabled \/ ~Row(id).is_managed
       THEN /\ last' = [rep EXCEPT !.outcome = "failure"]
            /\ UNCHANGED services
       ELSE /\ services' = (services \ {Row(id)})
                              \cup {[Row(id) EXCEPT !.is_managed = is_managed]}
            /\ last' = [rep EXCEPT !.outcome = "success", !.unit = Row(id).name]
    /\ UNCHANGED <<server, nextId, files>>
    /\ UNCHANGED <<txVars, poolVars, ovrVars>>

\* the outcome vectors that matter for a request: none when it is rejected
\* locally, and no fault at a step this request does not run
UpdateVectors(id, cfg, apply_immediately, create_backup) ==
    IF ~RowExists(id) \/ ~server.is_enabled \/ ~Row(id).is_managed \/ ~apply_immediately
    THEN {OverrideAllOk}
    ELSE {o \in OverrideVectorsAll :
            /\ ~create_backup => o["test"] = "ok"
            /\ ~(create_backup /\ overrides[CleanName(Row(id).name)] # NoFile) => o["cp"] = "ok"
            /\ ~HereDocOk(GenerateOverrideFileContent(cfg)) =>
                  \A x \in {"mv", "clean", "chmod", "rl"} : o[x] = "ok"}

Update(id, cfg, apply_immediately, create_backup) ==
    /\ id \in TargetIds
    /\ \E o \in UpdateVectors(id, cfg, apply_immediately, create_backup) :
          UpdateService(id, cfg, apply_immediately, create_backup, o)

\* rollback_service_configuration: o are the outcomes of remove_service_override,
\* oc and a those of the restart and of the status refresh that follows it.
\* RollbackSuccess is the success of the response once the removal has not returned
\* early: a restart that fails or raises is logged as a warning
RollbackSuccess_NeedsRestart(removed, restart, c) == removed /\ (restart => c.ok)
RollbackSuccess(removed, restart, c) == removed
RollbackServiceConfiguration(id, remove_override, restart_service, o, oc, a) ==
    LET rep == [NoOp EXCEPT !.op = "rollback", !.barred = Barred(id),
                            !.remove_override = remove_override,
                            !.restart_service = restart_service]
    IN
    /\ IF ~RowExists(id) \/ ~server.is_enabled
       THEN /\ last' = [rep EXCEPT !.outcome = "failure"]
            /\ UNCHANGED <<services, overrides, override_config>>
       ELSE LET s == Row(id)
                base == CleanName(s.name)
                r == IF remove_override
                     THEN RemoveServiceOverride(overrides, backups, base, o)
                     ELSE [ok |-> TRUE, ovr |-> overrides, remote |-> 0]
                restart == restart_service /\ s.is_managed
                c == SshControlService("restart", oc)
                f == RefreshServiceStatus(oc, a)
                rep2 == [rep EXCEPT !.unit = s.name, !.ssh_ok = r.ok]
            IN IF ~r.ok
               THEN /\ last' = [rep2 EXCEPT !.outcome = "failure", !.remote = r.remote]
                    /\ overrides' = r.ovr
                    /\ UNCHANGED <<services, override_config>>
               ELSE /\ overrides' = r.ovr
                    /\ override_config' = IF remove_override
                                          THEN [override_config EXCEPT ![id] = NoCfg]
                                          ELSE override_config
                    /\ services' = IF restart /\ c.ok /\ f.status # ""
                                   THEN (services \ {s}) \cup {UpdateStatus(s, f.status, f.main_pid)}
                                   ELSE services
                    /\ last' = [rep2 EXCEPT
                                  !.outcome = (IF RollbackSuccess(r.ok, restart, c)
                                               THEN "success" ELSE "failure"),
                                  !.applied = remove_override,
                                  !.restart = (IF ~restart THEN "none"
                                               ELSE IF c.ok THEN "ok"
                                               ELSE IF c.raised THEN "raise" ELSE "fail"),
                                  !.refresh = (IF restart /\ c.ok THEN f.failed ELSE "none"),
                                  !.remote = r.remote
                                             + (IF restart THEN c.remote ELSE 0)
                                             + (IF restart /\ c.ok THEN f.remote ELSE 0)]
    /\ UNCHANGED <<server, nextId, files, backups, tmpfiles, clock>>
    /\ UNCHANGED <<txVars, poolVars>>

\* the outcome vectors that matter for a rollback request
RollbackVectors(id, remove_override) ==
    IF ~RowExists(id) \/ ~server.is_enabled \/ ~remove_override
    THEN {UnoverrideAllOk}
    ELSE {o \in UnoverrideVectorsAll :
            LET base == CleanName(Row(id).name)
            IN /\ overrides[base] = NoFile =>
                    \A x \in {"rm", "chk", "rmdir", "rl"} : o[x] = "ok"
               /\ ~DirEmpty(backups, base) => o["rmdir"] = "ok"}
RestartVectors(id, remove_override, restart_service, o) ==
    IF /\ RowExists(id) /\ server.is_enabled /\ restart_service /\ Row(id).is_managed
       /\ (remove_override =>
             RemoveServiceOverride(overrides, backups, CleanName(Row(id).name), o).ok)
    THEN {oc \in ControlVectorsRefresh : FaultCount(oc) + FaultCount(o) <= MaxOvrFaults}
    ELSE {ControlAllOk}

Rollback(id, remove_override, restart_service) ==
    /\ id \in TargetIds
    /\ \E o \in RollbackVectors(id, remove_override) :
         \E oc \in RestartVectors(id, remove_override, restart_service, o) :
           \E a \in ReadStates("restart", oc) :
              RollbackServiceConfiguration(id, remove_override, restart_service, o, oc, a)

\* a caller reads the override file of a unit back
ReadOverride(b, o) ==
    LET r == GetServiceOverrideContent(overrides, b, o)
    IN /\ last' = [NoOp EXCEPT !.op = "read", !.unit = UnitName(b),
                               !.outcome = (IF r.ok THEN "success" ELSE "failure"),
                               !.ssh_ok = r.ok, !.content = r.content,
                               !.remote = (IF o["conn"] = "raise" THEN 1 ELSE 2)]
       /\ UNCHANGED <<server, services, nextId, files>>
       /\ UNCHANGED <<poolVars, ovrVars, txVars>>

\* a second passes
Tick ==
    /\ clock < MaxClock
    /\ clock' = clock + 1
    /\ UNCHANGED <<txVars, poolVars, svcVars, overrides, backups, tmpfiles, override_config>>

----------------------------------------------------------------------------
(* The remote operations as their callers see them: what a transport error   *)
(* inside an operation of SSHConnectionManager becomes at its boundary       *)

\* (success) of get_service_logs and its number of remote calls
SshGetServiceLogs(o) ==
    IF o["conn"] = "raise" THEN [ok |-> FALSE, remote |-> 1, raised |-> TRUE]
    ELSE [ok |-> o["cmd"] = "ok", remote |-> 2, raised |-> (o["cmd"] = "raise")]

\* validate_service_configuration: the name check, the command check and, when a
\* user is given, the user check; `id` exits by the host's users
ValidateSeq == <<"conn", "list", "which", "id">>
ValidateVectors ==
    {v : v \in {o \in Vectors(ValidateSeq, {"conn", "list", "which", "id"}, "validate") :
                    o["id"] # "fail"}}
ValidateServiceConfiguration(fs, cfg, o) ==
    LET errors == (IF o["list"] = "ok" /\ <<cfg.name, "service">> \in fs THEN {"exists"} ELSE {})
                  \cup (IF o["which"] = "fail" THEN {"command"} ELSE {})
                  \cup (IF cfg.user # "" /\ cfg.user \notin HostUsers THEN {"user"} ELSE {})
    IN
    IF o["conn"] = "raise" THEN [ok |-> FALSE, remote |-> 1, raised |-> TRUE]
    ELSE IF o["list"] = "raise" THEN [ok |-> FALSE, remote |-> 2, raised |-> TRUE]
    ELSE IF o["which"] = "raise" THEN [ok |-> FALSE, remote |-> 3, raised |-> TRUE]
    ELSE IF cfg.user # "" /\ o["id"] = "raise" THEN [ok |-> FALSE, remote |-> 4, raised |-> TRUE]
    ELSE [ok |-> errors = {}, remote |-> IF cfg.user # "" THEN 4 ELSE 3, raised |-> FALSE]

\* validate_service_override: the unit must be listed; a missing executable of
\* exec_start is a warning only
ValidateOverrideSeq == <<"conn", "list", "tx">>
ValidateOverrideVectors == Vectors(ValidateOverrideSeq, {"conn", "list", "tx"}, "validate")
ValidateServiceOverride(fs, base, cfg, o) ==
    IF o["conn"] = "raise" THEN [ok |-> FALSE, remote |-> 1, raised |-> TRUE]
    ELSE IF o["list"] = "raise" THEN [ok |-> FALSE, remote |-> 2, raised |-> TRUE]
    ELSE IF o["tx"] = "raise" THEN [ok |-> FALSE, remote |-> 3, raised |-> TRUE]
    ELSE [ok |-> (o["list"] = "ok" /\ <<base, "service">> \in fs), remote |-> 3,
          raised |-> FALSE]

\* get_system_info: a failing or raising information command leaves its value
\* None; only the session acquisition reaches the outer except clause
SystemInfoVectors == Vectors(<<"conn", "cmd">>, {"conn", "cmd"}, "none")
GetSystemInfo(o) ==
    IF o["conn"] = "raise" THEN [ok |-> FALSE, remote |-> 1, raised |-> TRUE]
    ELSE [ok |-> TRUE, remote |-> 2, raised |-> FALSE]

\* the commands dict of get_system_info, by key
InfoKeys == {"os_name", "os_version", "kernel_version", "architecture",
             "cpu_cores", "total_memory_mb", "total_disk_gb"}
NumericKeys == {"cpu_cores", "total_memory_mb", "total_disk_gb"}
\* what the commands print on a host: one host answers every command as expected,
\* the other prints text where a number is expected
HostStdout(host, k) ==
    IF k \in NumericKeys THEN (IF host = "plain" THEN "8" ELSE "n/a")
    ELSE IF k \in {"os_name", "os_version"} THEN "Debian" ELSE "x86_64"
IsDigit(v) == v = "8"
\* system_info[key] after the command of the key ended with `outcome`; int() of a
\* digit string is written with the same digits
ProbeValue(k, outcome, stdout) ==
    IF outcome # "ok" THEN NoValue
    ELSE IF k \in NumericKeys THEN (IF IsDigit(stdout) THEN stdout ELSE NoValue)
    ELSE stdout
\* get_system_info with the outcome of get_connection and of each command
SystemInfo_NoInnerExcept(host, conn, p) ==
    IF conn = "raise" \/ \E k \in InfoKeys : p[k] = "raise"
    THEN [ok |-> FALSE, raised |-> TRUE, facts |-> <<>>,
          remote |-> IF conn = "raise" THEN 1 ELSE 2]
    ELSE [ok |-> TRUE, raised |-> FALSE, remote |-> 1 + Cardinality(InfoKeys),
          facts |-> [k \in InfoKeys |-> ProbeValue(k, p[k], HostStdout(host, k))]]
SystemInfo(host, conn, p) ==
    IF conn = "raise"
    THEN [ok |-> FALSE, raised |-> TRUE, facts |-> <<>>, remote |-> 1]
    ELSE [ok |-> TRUE, raised |-> FALSE, remote |-> 1 + Cardinality(InfoKeys),
          facts |-> [k \in InfoKeys |-> ProbeValue(k, p[k], HostStdout(host, k))]]

ResultOps == {"control_service", "get_service_logs", "create_systemd_service",
              "remove_systemd_service", "create_service_override",
              "remove_service_override", "validate_service_configuration",
              "validate_service_override"}
RaisingOps == {"get_system_info", "discover_services"}

\* what the outermost `except Exception` clause of the operation does
ExceptClause_Reraise(op) == "raise"
ExceptClause(op) == IF op \in RaisingOps THEN "raise" ELSE "return"

\* what the caller of the operation gets
RemoteReport(op, ok, remote, raised) ==
    LET propagated == raised /\ ExceptClause(op) = "raise"
    IN [NoOp EXCEPT !.op = op, !.remote = remote, !.transport = raised,
                    !.ssh_ok = (ok /\ ~propagated),
                    !.exc = (IF propagated THEN "SSHConnectionError" ELSE "none"),
                    !.outcome = (IF propagated THEN "SSHConnectionError"
                                 ELSE IF ok THEN "success" ELSE "failure")]

\* the report of an operation with the result r
QueryReport(op, r) == RemoteReport(op, r.ok, r.remote, r.raised)
\* an operation that only reads leaves the host and the database as they are
QueryFrame == UNCHANGED <<server, services, nextId, files>> /\ UNCHANGED <<poolVars, ovrVars, txVars>>

RemoteControl(action, o) ==
    /\ last' = QueryReport("control_service", SshControlService(action, o))
    /\ QueryFrame
RemoteLogs(o) ==
    /\ last' = QueryReport("get_service_logs", SshGetServiceLogs(o))
    /\ QueryFrame
RemoteValidate(cfg, o) ==
    /\ last' = QueryReport("validate_service_configuration",
                           ValidateServiceConfiguration(files, cfg, o))
    /\ QueryFrame
RemoteValidateOverride(cfg, o) ==
    /\ last' = QueryReport("validate_service_override",
                           ValidateServiceOverride(files, "app", cfg, o))
    /\ QueryFrame
RemoteSystemInfo(o) ==
    /\ last' = QueryReport("get_system_info", GetSystemInfo(o))
    /\ QueryFrame
\* get_system_info as its caller sees it, command by command
GatherFacts(host, conn, p) ==
    LET r == SystemInfo(host, conn, p)
    IN /\ last' = [QueryReport("get_system_info", r) EXCEPT !.facts = r.facts, !.probes = p,
                                                               !.host = host]
       /\ QueryFrame
RemoteDiscover(i) ==
    LET r == SshDiscoverServices(i)
    IN /\ last' = RemoteReport("discover_services", ~r.raised, r.remote, r.raised)
       /\ QueryFrame

RemoteCreate(cfg, dry_run, o) ==
    LET r == CreateSystemdService(files, cfg, dry_run, o)
    IN /\ files' = r.fs
       /\ last' = [RemoteReport("create_systemd_service", r.ok, r.remote, r.raised)
                      EXCEPT !.written = r.written, !.created_files = r.created_files]
       /\ UNCHANGED <<server, services, nextId>>
       /\ UNCHANGED <<poolVars, ovrVars, txVars>>

RemoteRemove(remove_timer, o) ==
    LET r == RemoveSystemdService(files, "app", remove_timer, o)
    IN /\ files' = r.fs
       /\ last' = RemoteReport("remove_systemd_service", r.ok, r.remote, r.raised)
       /\ UNCHANGED <<server, services, nextId>>
       /\ UNCHANGED <<poolVars, ovrVars, txVars>>

RemoteApplyOverride(cfg, create_backup, o) ==
    LET r == CreateServiceOverride(overrides, backups, tmpfiles, "app", cfg, create_backup, clock, o)
    IN /\ overrides' = r.ovr /\ backups' = r.bak /\ tmpfiles' = r.tmp
       /\ last' = [RemoteReport("create_service_override", r.ok, r.remote, r.raised)
                      EXCEPT !.create_backup = create_backup, !.backup_file = r.backup_file]
       /\ UNCHANGED <<clock, override_config>>
       /\ UNCHANGED <<txVars, poolVars, svcVars_but_last>>

RemoteRemoveOverride(o) ==
    LET r == RemoveServiceOverride(overrides, backups, "app", o)
    IN /\ overrides' = r.ovr
       /\ last' = RemoteReport("remove_service_override", r.ok, r.remote, r.raised)
       /\ UNCHANGED <<backups, tmpfiles, clock, override_config>>
       /\ UNCHANGED <<txVars, poolVars, svcVars_but_last>>

----------------------------------------------------------------------------
(* Discovery passes that overlap: discover_services reads the rows of the    *)
(* server, awaits the remote discovery, and commits afterwards               *)

NPasses == 2        \* discovery requests in progress at once
Passes == 1..NPasses
NoPass == [running |-> FALSE, L |-> {}]

\* discover_services up to its await of the remote discovery
BeginDiscover(p, force) ==
    /\ ~passes[p].running
    /\ IF ~server.is_enabled
       THEN /\ last' = [NoOp EXCEPT !.op = "discover", !.force = force, !.outcome = "ValueError"]
            /\ UNCHANGED passes
       ELSE IF ~server.auto_discover_services /\ ~force
       THEN /\ last' = [NoOp EXCEPT !.op = "discover", !.force = force, !.outcome = "failure"]
            /\ UNCHANGED passes
       ELSE /\ passes' = [passes EXCEPT ![p] = [running |-> TRUE, L |-> services]]
            /\ last' = [NoOp EXCEPT !.op = "discover_begin", !.force = force]
    /\ UNCHANGED <<server, services, nextId, files>>
    /\ UNCHANGED <<poolVars, ovrVars>>

\* the remote discovery returns and the pass reconciles the rows it read at its
\* start with it: updates and deletes go by primary key, inserts get new keys;
\* an update of a row that is gone fails the flush and the pass rolls back
CommitDiscover(p, i) ==
    LET r == SshDiscoverServices(i)
        L == passes[p].L
        upd == UpdatedRows(L, r.infos)
        new == NewRows(L, r.infos, nextId)
        del == ToDelete(L, r.infos)
        ids(R) == {s.id : s \in R}
        stale == \E s \in upd : s.id \notin ids(services)
        rep == [NoOp EXCEPT !.op = "discover"]
    IN
    /\ passes[p].running
    /\ nextId + Cardinality(UnitNames) - 1 <= MaxId
    /\ passes' = [passes EXCEPT ![p] = NoPass]
    /\ IF r.raised \/ stale
       THEN /\ last' = [rep EXCEPT !.outcome = "failure", !.remote = r.remote]
            /\ UNCHANGED <<services, nextId>>
       ELSE /\ services' =
                 ({t \in services : t.id \notin ids(upd \cup del)}
                  \cup {ApplyUpdate(t, r.infos) : t \in {u \in services : u.id \in ids(upd)}})
                 \cup new
            /\ nextId' = nextId + Cardinality(new)
            /\ last' = [rep EXCEPT !.outcome = "success", !.remote = r.remote,
                                   !.discovered = Cardinality(new),
                                   !.updated = Cardinality({x \in r.infos : Existing(L, x.name) # {}}),
                                   !.removed = Cardinality(del),
                                   !.seen = {x.name : x \in r.infos},
                                   !.infos = r.infos,
                                   !.degraded = Degraded(i)]
    /\ UNCHANGED <<server, files>>
    /\ UNCHANGED <<poolVars, ovrVars>>

----------------------------------------------------------------------------
(* Initial states and specifications *)

InitPoolVars ==
    /\ connections = [k \in Keys |-> 0]
    /\ connection_locks = [k \in Keys |-> -1]
    /\ pc = [c \in Callers |-> "idle"]
    /\ ckey = [c \in Callers |-> "h1:22:root"]
    /\ ret = [c \in Callers |-> 0]
    /\ blocked = [c \in Callers |-> FALSE]
    /\ calls = [c \in Callers |-> 0]
    /\ createCalls = [k \in Keys |-> 0]
    /\ created = [k \in Keys |-> 0]
    /\ failures = [k \in Keys |-> 0]
    /\ workers = {}

InitSvcVars ==
    /\ server = [is_enabled |-> TRUE, auto_discover_services |-> TRUE, status |-> "ONLINE"]
    /\ services = {}
    /\ nextId = 1
    /\ files = {}
    /\ last = NoOp

InitOvrVars ==
    /\ overrides = [b \in Bases |-> NoFile]
    /\ backups = [k \in Bases \X Clock |-> NoFile]
    /\ tmpfiles = [k \in Bases \X Clock |-> NoFile]
    /\ clock = 0
    /\ override_config = [id \in Ids |-> NoCfg]

InitTxVars == passes = [p \in Passes |-> NoPass]

Init == InitPoolVars /\ InitSvcVars /\ InitOvrVars /\ InitTxVars

NextPool ==
    \/ \E c \in Callers, k \in Keys : GetConnection(c, k)
    \/ \E c \in Callers : LockAcquired(c)
    \/ \E c \in Callers : Dispatch(c)
    \/ \E c \in Callers, ok \in BOOLEAN : ProbeDone(c, ok)
    \/ \E c \in Callers, ok \in BOOLEAN : CreateDone(c, ok)
    \/ \E c \in Callers : Finish(c)

SpecPool == Init /\ [][NextPool]_vars

\* SpecPoolFair: the pool when every remote command completes or fails, the
\* executor starts a queued call once a thread is free and the event loop
\* resumes a waiter of a released lock
PoolFairness ==
    \A c \in Callers :
        /\ WF_vars(LockAcquired(c))
        /\ WF_vars(Dispatch(c))
        /\ WF_vars(\E ok \in BOOLEAN : ProbeDone(c, ok))
        /\ WF_vars(\E ok \in BOOLEAN : CreateDone(c, ok))
SpecPoolFair == Init /\ [][NextPool]_vars /\ PoolFairness

\* SpecHang: the pool when a remote command may never respond.  A command that is
\* not hung is answered, the FIFO asyncio lock is handed to every waiter, and a
\* caller picks up its result.
NextHang ==
    \/ \E c \in Callers, k \in Keys : GetConnection(c, k)
    \/ \E c \in Callers : LockAcquired(c)
    \/ \E c \in Callers : Dispatch(c)
    \/ \E c \in Callers, ok \in BOOLEAN : ProbeDone(c, ok)
    \/ \E c \in Callers, ok \in BOOLEAN : CreateDone(c, ok)
    \/ \E c \in Callers : Hang(c)
    \/ \E c \in Callers : Finish(c)

SpecHang ==
    /\ Init /\ [][NextHang]_vars
    /\ \A c \in Callers :
          /\ SF_vars(LockAcquired(c))
          /\ SF_vars(Dispatch(c))
          /\ WF_vars(\E ok \in BOOLEAN : ProbeDone(c, ok))
          /\ WF_vars(\E ok \in BOOLEAN : CreateDone(c, ok))
          /\ WF_vars(Finish(c))

\* SpecDisc deploys plain managed services without faults
DiscConfigs == {v : v \in {c \in Configs : ~c.create_timer /\ c.is_managed /\ c.user = ""}}

NextDisc ==
    \/ \E force \in BOOLEAN, i \in DiscInputs : DiscoverServices(force, i)
    \/ \E en, ad \in BOOLEAN : UpdateServer(en, ad)
    \/ \E cfg \in DiscConfigs : CreateCustomService(cfg, FALSE, DeployAllOk)
    \/ \E id \in Ids, remove_files \in BOOLEAN : Remove(id, remove_files)

SpecDisc == Init /\ [][NextDisc]_vars

\* actions a caller of the control endpoint may send (one of them is not a valid verb)
ControlActions == {"restart", "enable", "purge"}

\* the requests of Spec all deploy the same name
OpsConfigs == {v : v \in {c \in Configs : c.name = "app"}}

Next ==
    \/ \E cfg \in OpsConfigs, dry_run \in BOOLEAN : Deploy(cfg, dry_run)
    \/ \E id \in Ids, remove_files \in BOOLEAN : Remove(id, remove_files)
    \/ \E id \in Ids, action \in ControlActions : Control(id, action)
    \/ \E id \in Ids : Logs(id)
    \/ \E en \in BOOLEAN : UpdateServer(en, TRUE)

Spec == Init /\ [][Next]_vars

\* SpecOvr and SpecRb deploy the unit "app" without faults
OvrDeployConfigs == {v : v \in {c \in Configs : c.name = "app" /\ ~c.create_timer /\ c.user = ""}}
OvrManagedConfigs == {v : v \in {c \in OvrDeployConfigs : c.is_managed}}

\* a rollback that removes the override of an existing unit, no step failing
Revert(id) ==
    /\ RowExists(id)
    /\ RollbackServiceConfiguration(id, TRUE, FALSE, UnoverrideAllOk, ControlAllOk, "active")

\* an override applied at once and without backup, no step failing
ApplyPlain(id, cfg) ==
    /\ id \in TargetIds
    /\ UpdateService(id, cfg, TRUE, FALSE, OverrideAllOk)

\* SpecOvr: overrides are applied to a managed unit with every fault, read back,
\* and removed without faults
NextOvr ==
    \/ \E cfg \in OvrManagedConfigs : CreateCustomService(cfg, FALSE, DeployAllOk)
    \/ \E id \in Ids, cfg \in OvrConfigs, ai, cb \in BOOLEAN : Update(id, cfg, ai, cb)
    \/ \E id \in Ids : Revert(id)
    \/ \E o \in ReadVectors : ReadOverride("app", o)
    \/ Tick

SpecOvr == Init /\ [][NextOvr]_vars

\* SpecRb: overrides are applied without faults and rolled back with every
\* fault, on a managed or unmanaged unit of an enabled or disabled server
NextRb ==
    \/ \E cfg \in OvrDeployConfigs : CreateCustomService(cfg, FALSE, DeployAllOk)
    \/ \E id \in Ids, cfg \in OvrConfigs : ApplyPlain(id, cfg)
    \/ \E id \in Ids, ro, rs \in BOOLEAN : Rollback(id, ro, rs)
    \/ \E o \in ReadVectors : ReadOverride("app", o)
    \/ \E en \in BOOLEAN : UpdateServer(en, TRUE)

SpecRb == Init /\ [][NextRb]_vars

\* SpecConc: discovery passes that overlap each other and deploys; the remote
\* discovery answers without faults or fails at session acquisition
ConcInputs ==
    {v : v \in {i \in DiscInputs :
                    /\ DiscFaults(i) = 0 \/ i.conn = "raise"
                    /\ \A n \in DOMAIN i.units : i.units[n].active = "active"}}

NextConc ==
    \/ \E p \in Passes, force \in BOOLEAN : BeginDiscover(p, force)
    \/ \E p \in Passes, i \in ConcInputs : CommitDiscover(p, i)
    \/ \E cfg \in DiscConfigs : CreateCustomService(cfg, FALSE, DeployAllOk)
    \/ \E en, ad \in BOOLEAN : UpdateServer(en, ad)

SpecConc == Init /\ [][NextConc]_vars

\* SpecRemote: the operations of SSHConnectionManager called directly, each
\* with every way its remote steps can end
MaxRemoteFaults == 1
RemoteConfigs == {v : v \in {c \in OpsConfigs : c.is_managed}}
RemoteCreateConfigs == {v : v \in {c \in RemoteConfigs : c.user = ""}}
\* the outcome vectors of a set with at most MaxRemoteFaults faults
Few(V) == {v : v \in {o \in V : FaultCount(o) <= MaxRemoteFaults}}
RemoteDeployVectors(cfg, dry_run) ==
    IF dry_run THEN DeployVectorsDry
    ELSE IF cfg.create_timer /\ cfg.timer_config # NoTimerConfig
    THEN Few(DeployVectorsTimer) ELSE Few(DeployVectorsPlain)
RemoteRemoveVectors(t) == IF t THEN Few(RemoveVectorsTimer) ELSE Few(RemoveVectorsPlain)
RemoteDiscInputs ==
    {v : v \in {i \in DiscInputs :
                    /\ DiscFaults(i) <= MaxRemoteFaults
                    /\ \A n \in DOMAIN i.units : i.units[n].active = "active"}}

NextRemote ==
    \/ \E a \in ControlActions, o \in ControlVectorsPlain : RemoteControl(a, o)
    \/ \E o \in LogVectors : RemoteLogs(o)
    \/ \E cfg \in RemoteCreateConfigs, dry_run \in BOOLEAN :
          \E o \in RemoteDeployVectors(cfg, dry_run) : RemoteCreate(cfg, dry_run, o)
    \/ \E t \in BOOLEAN : \E o \in RemoteRemoveVectors(t) : RemoteRemove(t, o)
    \/ \E cfg \in OvrConfigs, o \in OverrideVectorsAll : RemoteApplyOverride(cfg, TRUE, o)
    \/ \E o \in UnoverrideVectorsAll : RemoteRemoveOverride(o)
    \/ \E cfg \in RemoteConfigs, o \in Few(ValidateVectors) : RemoteValidate(cfg, o)
    \/ \E cfg \in OvrConfigs, o \in Few(ValidateOverrideVectors) :
          RemoteValidateOverride(cfg, o)
    \/ \E o \in SystemInfoVectors : RemoteSystemInfo(o)
    \/ \E i \in RemoteDiscInputs : RemoteDiscover(i)

SpecRemote == Init /\ [][NextRemote]_vars

\* SpecInfo: system information is gathered with at most MaxInfoFaults commands
\* failing or raising
MaxInfoFaults == 2
ProbeVectors ==
    {v : v \in {p \in [InfoKeys -> Outcomes] :
                    Cardinality({k \in InfoKeys : p[k] # "ok"}) <= MaxInfoFaults}}
NextInfo ==
    \E host \in {"plain", "odd"}, conn \in {"ok", "raise"}, p \in ProbeVectors :
        GatherFacts(host, conn, p)

SpecInfo == Init /\ [][NextInfo]_vars

\* The renderers, called as create_systemd_service (dry run) and
\* create_service_override call them: the text goes to the report
\* repeat: the call before this one rendered the same file from the same input
RenderReport(file, config, text) ==
    [NoOp EXCEPT !.op = "render", !.file = file, !.config = config, !.content = text,
                 !.repeat = (last.op = "render" /\ last.file = file /\ last.config = config)]
RenderServiceUnit(c) ==
    /\ last' = RenderReport("service", c, GenerateSystemdServiceFile(c))
    /\ QueryFrame
RenderTimerUnit(service_name, t) ==
    /\ last' = RenderReport("timer", <<service_name, t>>,
                            GenerateSystemdTimerFile(service_name, t))
    /\ QueryFrame
RenderOverride(cfg) ==
    /\ last' = RenderReport("override", cfg, GenerateOverrideFileContent(cfg))
    /\ QueryFrame

\* timer configurations with and without an accuracy, persistent or not
RenderTimerConfigs ==
    [on_calendar : {NoValue, "daily"}, cron_expression : {NoValue, "@weekly"},
     on_boot_sec : {NoValue, "15min"}, accuracy_sec : {NoValue, "1min"},
     persistent : BOOLEAN]
\* override dicts: any of a description, an exec_start and a wanted_by list
FullOverrides ==
    {[description |-> "web", exec_start |-> v, wanted_by |-> <<"multi-user.target">>] :
        v \in OvrValues}
OverrideDicts ==
    {[f \in D |-> c[f]] : D \in SUBSET {"description", "exec_start", "wanted_by"},
                          c \in FullOverrides}

NextRender ==
    \/ \E c \in ServiceDicts : RenderServiceUnit(c)
    \/ \E service_name \in Bases, t \in RenderTimerConfigs : RenderTimerUnit(service_name, t)
    \/ \E cfg \in OverrideDicts : RenderOverride(cfg)
    \/ Tick

SpecRender == Init /\ [][NextRender]_vars

\* a cron expression is converted: the text, or the ValueError, goes to the report
ConvertCron(parts) ==
    LET r == ConvertCronFields(parts)
    IN /\ last' = [NoOp EXCEPT !.op = "cron", !.cron = parts, !.content = r.text,
                               !.outcome = (IF r.ok THEN "success" ELSE "ValueError")]
       /\ QueryFrame

\* SpecCron: the shortcuts, the five-field expressions over wildcards and in-range
\* numbers, and expressions with another number of fields
CronShortcuts == {"@yearly", "@annually", "@monthly", "@weekly", "@daily", "@midnight", "@hourly"}
FiveFields ==
    {<<mi, h, d, mo, wd>> : mi \in {"*", "0"}, h \in {"*", "2"}, d \in {"*", "15"},
                            mo \in {"*", "6"},
                            wd \in {"*", "0", "1", "2", "3", "4", "5", "6"}}
OtherFields ==
    {<<"@reboot">>, <<>>, <<"0", "2", "*", "*">>, <<"0", "0", "2", "*", "*", "*">>,
     <<"@daily", "@daily">>}
CronInputs == {<<x>> : x \in CronShortcuts} \cup FiveFields \cup OtherFields

NextCron == \E parts \in CronInputs : ConvertCron(parts)

SpecCron == Init /\ [][NextCron]_vars

\* the override dicts of SpecSync and SpecApply: two that render to different files
ApplyConfigs == [exec_start : {<<"/bin/a">>, <<"/bin/b">>}]

\* SpecSync: overrides are applied at once and removed by rollback, one request
\* after the other, every remote step of both failing or raising
NextSync ==
    \/ \E cfg \in OvrManagedConfigs : CreateCustomService(cfg, FALSE, DeployAllOk)
    \/ \E id \in Ids, cfg \in ApplyConfigs : Update(id, cfg, TRUE, FALSE)
    \/ \E id \in Ids, rs \in BOOLEAN : Rollback(id, TRUE, rs)

SpecSync == Init /\ [][NextSync]_vars

\* SpecApply: two update_service requests apply overrides to the same unit at the
\* same time.  Each await of a remote command is a point where the other request
\* runs; a remote command acts on the host in one step.  No command fails for a
\* reason other than the files it finds.
\* passes[p] of a request in progress: the row and dict it was given, the text it
\* rendered, the timestamp in the name of its temporary file (-1 before it is
\* read) and the text its mv put into place
ApplyPass(id, cfg) ==
    [running |-> TRUE, L |-> {}, step |-> "write", id |-> id, cfg |-> cfg,
     text |-> GenerateOverrideFileContent(cfg), stamp |-> -1, installed |-> NoFile]
ApplyReport(p, ok) ==
    [NoOp EXCEPT !.op = "update", !.caller = p, !.unit = Row(passes[p].id).name,
                 !.outcome = (IF ok THEN "success" ELSE "failure"),
                 !.applied = ok, !.ssh_ok = ok,
                 !.content = HereDocFile(passes[p].text),
                 !.installed = passes[p].installed]
ApplyFrame ==
    /\ UNCHANGED <<server, services, nextId, files, backups>>
    /\ UNCHANGED poolVars

\* update_service(apply_immediately=True, create_backup=False) up to the await of
\* the write command: the checks of the handler, get_connection, mkdir -p
BeginApply(p, id, cfg) ==
    /\ ~passes[p].running
    /\ RowExists(id) /\ server.is_enabled /\ Row(id).is_managed
    /\ passes' = [passes EXCEPT ![p] = ApplyPass(id, cfg)]
    /\ last' = [NoOp EXCEPT !.op = "update_begin", !.caller = p]
    /\ UNCHANGED <<overrides, tmpfiles, clock, override_config>>
    /\ ApplyFrame

\* temp_file is named by datetime.now() in seconds; `cat > temp_file` replaces
\* whatever the path holds
WriteTemp(p) ==
    LET q == passes[p]
        base == CleanName(Row(q.id).name)
    IN /\ q.running /\ q.step = "write" /\ RowExists(q.id)
       /\ tmpfiles' = [tmpfiles EXCEPT ![<<base, clock>>] = HereDocFile(q.text)]
       /\ passes' = [passes EXCEPT ![p].stamp = clock, ![p].step = "mv"]
       /\ last' = [NoOp EXCEPT !.op = "update_write", !.caller = p]
       /\ UNCHANGED <<overrides, clock, override_config>>
       /\ ApplyFrame

\* `sudo mv temp_file override_file`: moves what the path holds now, and fails when
\* the path holds nothing
MoveTemp(p) ==
    LET q == passes[p]
        base == CleanName(Row(q.id).name)
        k == <<base, q.stamp>>
    IN /\ q.running /\ q.step = "mv" /\ RowExists(q.id)
       /\ IF tmpfiles[k] = NoFile
          THEN /\ passes' = [passes EXCEPT ![p].step = "clean"]
               /\ UNCHANGED <<overrides, tmpfiles>>
          ELSE /\ overrides' = [overrides EXCEPT ![base] = tmpfiles[k]]
               /\ tmpfiles' = [tmpfiles EXCEPT ![k] = NoFile]
               /\ passes' = [passes EXCEPT ![p].step = "rl", ![p].installed = tmpfiles[k]]
       /\ last' = [NoOp EXCEPT !.op = "update_mv", !.caller = p]
       /\ UNCHANGED <<clock, override_config>>
       /\ ApplyFrame

\* the mv failed: `rm -f temp_file`, then create_service_override returns False and
\* update_service answers success=False
CleanTemp(p) ==
    LET q == passes[p]
        base == CleanName(Row(q.id).name)
    IN /\ q.running /\ q.step = "clean" /\ RowExists(q.id)
       /\ tmpfiles' = [tmpfiles EXCEPT ![<<base, q.stamp>>] = NoFile]
       /\ passes' = [passes EXCEPT ![p] = NoPass]
       /\ last' = ApplyReport(p, FALSE)
       /\ UNCHANGED <<overrides, clock, override_config>>
       /\ ApplyFrame

\* chmod 644 and daemon-reload succeed: create_service_override returns True and
\* update_service stores the dict in the row
EndApply(p) ==
    LET q == passes[p]
    IN /\ q.running /\ q.step = "rl" /\ RowExists(q.id)
       /\ override_config' = [override_config EXCEPT ![q.id] = q.cfg]
       /\ passes' = [passes EXCEPT ![p] = NoPass]
       /\ last' = ApplyReport(p, TRUE)
       /\ UNCHANGED <<overrides, tmpfiles, clock>>
       /\ ApplyFrame

\* the clock of SpecApply passes to the next second
TickApply ==
    /\ Tick
    /\ UNCHANGED passes

NextApply ==
    \/ \E cfg \in OvrManagedConfigs : CreateCustomService(cfg, FALSE, DeployAllOk)
    \/ \E p \in Passes, id \in Ids, cfg \in ApplyConfigs : BeginApply(p, id, cfg)
    \/ \E p \in Passes : WriteTemp(p)
    \/ \E p \in Passes : MoveTemp(p)
    \/ \E p \in Passes : CleanTemp(p)
    \/ \E p \in Passes : EndApply(p)
    \/ TickApply

SpecApply == Init /\ [][NextApply]_vars

\* SpecHost: connection tests, system information gathering and flag updates on a
\* host that answers, refuses or fails, together with the operations on its units
ProbeOutcomes ==
    {o \in [{"conn", "cmd"} -> Outcomes] : o["conn"] # "ok" => o["cmd"] = "ok"}
HostDiscInputs ==
    {v : v \in {i \in ConcInputs : i.list # "text_ok" /\ DOMAIN i.units \subseteq {"app.service"}}}
NextHost ==
    \/ \E o \in ProbeOutcomes : TestConnection(o)
    \/ \E conn \in {"ok", "raise"} : GatherSystemInfo(conn)
    \/ \E en \in BOOLEAN, o \in ProbeOutcomes : UpdateServerProbe(en, TRUE, o)
    \/ \E force \in BOOLEAN, i \in HostDiscInputs : DiscoverServices(force, i)
    \/ \E cfg \in OvrManagedConfigs : CreateCustomService(cfg, FALSE, DeployAllOk)
    \/ \E id \in Ids, action \in ControlActions : Control(id, action)
    \/ \E id \in Ids : Logs(id)
    \/ \E id \in Ids, cfg \in OvrConfigs : ApplyPlain(id, cfg)
    \/ \E id \in Ids : Revert(id)

SpecHost == Init /\ [][NextHost]_vars

\* SpecManaged: units are deployed managed or not, discovered, controlled,
\* overridden, rolled back, and update requests switch their is_managed flag
NextManaged ==
    \/ \E cfg \in OvrDeployConfigs : CreateCustomService(cfg, FALSE, DeployAllOk)
    \/ \E id \in Ids, m \in BOOLEAN : UpdateManaged(id, m)
    \/ \E id \in Ids, cfg \in OvrConfigs : ApplyPlain(id, cfg)
    \/ \E id \in Ids : Revert(id)
    \/ \E id \in Ids, action \in ControlActions : Control(id, action)
    \/ \E force \in BOOLEAN, i \in HostDiscInputs : DiscoverServices(force, i)
    \/ \E en \in BOOLEAN : UpdateServer(en, TRUE)

SpecManaged == Init /\ [][NextManaged]_vars

\* the deploy endpoint: FastAPI builds the ServiceDeployRequest from the body and answers
\* 422 when a validator raises; otherwise it calls create_custom_service
DeployService(req, dry_run) ==
    IF ~ValidRequest(req)
    THEN /\ last' = [NoOp EXCEPT !.op = "deploy", !.outcome = "rejected",
                                 !.rejected = TRUE, !.unit = UnitName(req.name),
                                 !.dry_run = dry_run, !.create_timer = req.create_timer,
                                 !.timer_config = req.timer_config]
         /\ UNCHANGED svcVars_but_last
         /\ UNCHANGED <<poolVars, ovrVars, txVars>>
    ELSE \E o \in Few(DeployVectors(req, dry_run)) : CreateCustomService(req, dry_run, o)

\* SpecTimer submits every combination of create_timer and timer_config for one unit
TimerRequests ==
    {v : v \in {c \in Requests : c.name = "app" /\ c.is_managed /\ c.user = ""}}

NextTimer ==
    \/ \E req \in TimerRequests, dry_run \in BOOLEAN : DeployService(req, dry_run)
    \/ \E id \in Ids : Remove(id, TRUE)

SpecTimer == Init /\ [][NextTimer]_vars

----------------------------------------------------------------------------
(* C1: concurrent get_connection calls for one key that has no cached      *)
(* session, on a host whose round trips succeed, perform exactly one       *)
(* session creation, and every caller that has returned holds that one     *)
(* session.                                                                *)
C1_ConnectionDedup ==
    \A k \in Keys : failures[k] = 0 =>
        /\ createCalls[k] <= 1
        /\ \A c \in Callers : (ckey[c] = k /\ pc[c] = "done") =>
              /\ createCalls[k] = 1
              /\ created[k] = 1
              /\ ret[c] = 1
              /\ connections[k] = 1

\* two callers of the same key have both returned, one of them after waiting
\* for the lock the other held, and both hold session 1
C1_Witness ==
    \E c1, c2 \in Callers :
        /\ c1 # c2
        /\ ckey[c1] = ckey[c2]
        /\ failures[ckey[c1]] = 0
        /\ pc[c1] = "done" /\ pc[c2] = "done"
        /\ calls[c1] = 1 /\ calls[c2] = 1
        /\ blocked[c2]
        /\ ret[c1] = 1 /\ ret[c2] = 1
        /\ created[ckey[c1]] = 1

----------------------------------------------------------------------------
(* C2: a successful reconciliation pass over local rows L and discovered    *)
(* names D inserts exactly D \ L, keeps and updates exactly D \cap L,       *)
(* deletes exactly the systemd rows of source "discovered" whose name is    *)
(* not in D, and reports discovered + updated = |D| and removed = the size  *)
(* of that delete-set.                                                      *)
C2_ReconcileSets ==
    [][(last'.op = "discover" /\ last'.outcome = "success") =>
        LET D == last'.seen
            Ln == {s.name : s \in services}
            oldIds == {s.id : s \in services}
            delset == {s \in services : /\ s.service_type = "systemd"
                                        /\ s.creation_source = "discovered"
                                        /\ s.name \notin D}
        IN /\ {s.name : s \in {t \in services' : t.id \notin oldIds}} = D \ Ln
           /\ {s.name : s \in {t \in services' : t.id \in oldIds /\ t.name \in D}} = D \cap Ln
           /\ oldIds \ {s.id : s \in services'} = {s.id : s \in delset}
           /\ last'.discovered + last'.updated = Cardinality(D)
           /\ last'.removed = Cardinality(delset)]_vars

(* C3: a reconciliation pass neither modifies nor deletes a row that is not *)
(* of the systemd type or that was created through deployment.              *)
C3_CreatedUntouched ==
    [][last'.op = "discover" =>
        \A s \in services :
            (s.service_type # "systemd" \/ s.creation_source = "created") => s \in services']_vars

(* C4: when the listing command exits non-zero or a per-unit query fails,   *)
(* discovery fails with a connection error and the pass deletes no row.     *)
C4_DiscoveryFailsLoudly ==
    (last.op = "discover" /\ last.degraded) =>
        (last.outcome = "failure" /\ last.removed = 0)

(* C5: ControlUnit against a unit whose host is disabled returns a result   *)
(* object with success=false and issues no remote call.                     *)
C5_ControlDisabledHost ==
    (last.op = "control" /\ last.barred /\ ~server.is_enabled) =>
        (last.outcome = "failure" /\ last.remote = 0)

(* C6: a unit-targeting operation on an unmanaged unit or on a unit of a    *)
(* disabled host makes no remote call.                                      *)
C6_PolicyBeforeRemote ==
    (last.op \in {"control", "logs", "remove"} /\ last.barred) => last.remote = 0

(* C7: a dry-run deploy returns the rendered files, reports no created      *)
(* file, makes no remote call and persists no row.                          *)
C7_DryRunTouchesNothing ==
    (last.op = "deploy" /\ last.dry_run) =>
        /\ last.outcome = "success"
        /\ last.rendered # {}
        /\ last.created_files = {}
        /\ last.remote = 0
        /\ last.rec = 0

(* C8: when a create with a timer fails, none of the files this call wrote  *)
(* is on the host when it returns.                                          *)
C8_NoHalfInstalledPair ==
    (last.op = "deploy" /\ ~last.dry_run /\ last.timer /\ last.outcome = "failure") =>
        last.written \cap files = {}

(* C9: removeUnit reports success only if the file deletions ran and        *)
(* succeeded, and a failure of stop, disable or daemon-reload alone does    *)
(* not make it fail.                                                        *)
C9_RemoveNeedsDeletion ==
    (last.op = "remove" /\ last.remote > 0) =>
        /\ last.ssh_ok => last.del_ok
        /\ last.besteffort_only => last.ssh_ok

(* C10: a configuration that validation against the host rejects is not     *)
(* deployed: no unit file is written and no row is persisted.               *)
C10_ErrorsBlockCreation ==
    (last.op = "deploy" /\ ~last.dry_run /\ last.cfg_errors) =>
        (last.written = {} /\ last.rec = 0)

(* C11: when applying an override returns failure after a remote step       *)
(* failed, the active override file is what it was before the call.         *)
C11_FailedApplyKeepsOverride ==
    [][(last'.op = "update" /\ last'.outcome = "failure" /\ last'.remote > 0) =>
            overrides' = overrides]_vars

(* C12: an override applied with backup returns no backup path when no      *)
(* override file existed, and otherwise a backup path at which a backup     *)
(* file holds the override text that was active before the call.            *)
C12_BackupHoldsPrior ==
    [][(last'.op = "update" /\ last'.create_backup /\ last'.applied) =>
        LET b == CleanName(last'.unit)
        IN /\ overrides[b] = NoFile => last'.backup_file = -1
           /\ overrides[b] # NoFile =>
                 /\ last'.backup_file # -1
                 /\ backups'[<<b, last'.backup_file>>] = overrides[b]]_vars

(* C13: after a rollback with remove_override returns success the unit has  *)
(* no override file, its stored override configuration is cleared, and a    *)
(* read that follows returns no content.                                    *)
C13_RollbackRemovesOverride ==
    [][/\ (last'.op = "rollback" /\ last'.remove_override /\ last'.outcome = "success") =>
            /\ overrides'[CleanName(last'.unit)] = NoFile
            /\ \A s \in services : s.name = last'.unit => override_config'[s.id] = NoCfg
       /\ ( /\ last.op = "rollback" /\ last.remove_override /\ last.outcome = "success"
            /\ last'.op = "read" /\ last'.unit = last.unit /\ last'.ssh_ok ) =>
            last'.content = NoFile]_vars
C13_Witness ==
    /\ last.op = "rollback" /\ last.remove_override /\ last.outcome = "success"
    /\ last.remote > 2
    /\ overrides[CleanName(last.unit)] = NoFile
    /\ \E s \in services : s.name = last.unit /\ override_config[s.id] = NoCfg

(* C14: a read that directly follows a successful application of an         *)
(* override configuration returns the rendered text of that configuration,  *)
(* up to trailing whitespace.                                               *)
C14_OverrideRoundTrip ==
    [][( /\ last.op = "update" /\ last.applied
         /\ last'.op = "read" /\ last'.unit = last.unit /\ last'.ssh_ok ) =>
        \A s \in services : s.name = last.unit =>
            RStrip(last'.content) = RStrip(GenerateOverrideFileContent(override_config[s.id]))]_vars

(* C15: a remove request for a unit whose creation source is not "created"  *)
(* is rejected whatever remove_files is: no remote command is issued, the   *)
(* record stays and the host's files are untouched.                         *)
C15_RemoveOnlyCreated ==
    [][(last'.op = "remove" /\
        \E s \in services : s.name = last'.unit /\ s.creation_source # "created") =>
            /\ last'.outcome = "failure"
            /\ last'.remote = 0
            /\ services' = services
            /\ files' = files]_vars
C15_Witness ==
    /\ last.op = "remove" /\ last.remove_files /\ last.outcome = "failure"
    /\ \E s \in services : s.name = last.unit /\ s.creation_source = "discovered"

(* C16: a control request whose action is not one of start, stop, restart,  *)
(* reload, enable, disable fails without acquiring a session or sending a   *)
(* command, and leaves every record as it was.                              *)
C16_InvalidActionRejected ==
    [][(last'.op = "control" /\ last'.action \notin ValidActions) =>
            /\ last'.outcome \in {"failure", "ValueError"}
            /\ last'.remote = 0
            /\ services' = services
            /\ connections' = connections /\ createCalls' = createCalls]_vars
C16_Witness ==
    /\ last.op = "control" /\ last.action = "purge" /\ last.outcome = "failure"
    /\ \E s \in services : s.name = last.unit /\ s.is_managed
    /\ server.is_enabled

(* C17: discovery on an enabled host whose auto-discovery flag is off, not  *)
(* forced, makes no remote call, changes no record and is not reported as   *)
(* a failure; with the flag set or when forced the pass is run.             *)
C17_SkipIsNoOp ==
    [][/\ ( /\ last'.op = "discover" /\ server.is_enabled
            /\ ~server.auto_discover_services /\ ~last'.force ) =>
            /\ last'.remote = 0
            /\ services' = services
            /\ last'.outcome # "failure"
       /\ ( /\ last'.op = "discover" /\ server.is_enabled
            /\ (server.auto_discover_services \/ last'.force) ) =>
            last'.remote > 0]_vars

(* C18: once a create call has written every unit file of the request, it   *)
(* reports success with those files as created files, whether or not the    *)
(* daemon-reload, enable or start step that follows fails.                  *)
C18_TailStepsAdvisory ==
    ( /\ last.op = "deploy" /\ ~last.dry_run
      /\ last.written = {<<CleanName(last.unit), "service">>}
                          \cup (IF last.timer THEN {<<CleanName(last.unit), "timer">>} ELSE {}) ) =>
        /\ last.outcome = "success"
        /\ last.created_files = last.written

(* C19: a get_connection call that finds a cached session probes it: when   *)
(* the probe succeeds the call returns that cached session and creates      *)
(* none; when the probe fails the session is removed from the cache before  *)
(* a new one is created; and no call ever returns a session that was        *)
(* discarded.                                                               *)
C19_ProbeThenReuse ==
    [][\A c \in Callers :
        LET k == ckey[c] IN
        /\ (pc[c] = "probing" /\ pc'[c] = "done") =>
              /\ ret'[c] = connections[k] /\ ret'[c] > 0
              /\ connections' = connections
              /\ createCalls' = createCalls /\ created' = created
        /\ (pc[c] = "probing" /\ pc'[c] = "creating") => connections'[k] = 0
        /\ pc'[c] = "creating" => connections'[ckey'[c]] = 0
        /\ (pc[c] # "done" /\ pc'[c] = "done" /\ ret'[c] > 0) =>
              /\ ret'[c] = connections'[k]
              /\ pc[c] = "creating" => ret'[c] > created[k]]_vars
\* session 1 of a key failed its probe and was replaced by session 2, which a
\* later call probed and got back without a third creation
C19_Witness ==
    \E c1, c2 \in Callers :
        LET k == ckey[c1] IN
        /\ c1 # c2 /\ ckey[c2] = k
        /\ pc[c1] = "done" /\ pc[c2] = "done"
        /\ calls[c1] = 2 /\ calls[c2] = 1
        /\ ret[c1] = 2 /\ ret[c2] = 2
        /\ createCalls[k] = 2 /\ created[k] = 2 /\ failures[k] = 1
        /\ connections[k] = 2

(* C20: a get_connection call makes at most one creation attempt; when the  *)
(* attempt fails the call ends with a connection error and nothing is       *)
(* cached for the key, so the cache only holds sessions whose creation      *)
(* round trip succeeded.                                                    *)
C20_OneAttemptNoCacheOnFailure ==
    [][/\ \A c \in Callers :
            LET k == ckey[c] IN
            pc[c] = "creating" =>
                \/ /\ pc'[c] = "creating"
                   /\ createCalls'[k] = createCalls[k]
                   /\ connections'[k] = 0 /\ created'[k] = created[k]
                \/ /\ pc'[c] = "done"
                   /\ createCalls'[k] = createCalls[k]
                   /\ ret'[c] = -1 => (connections'[k] = 0 /\ created'[k] = created[k])
                   /\ ret'[c] # -1 => /\ created'[k] = created[k] + 1
                                      /\ connections'[k] = created'[k]
                                      /\ ret'[c] = created'[k]
       /\ \A k \in Keys :
            /\ createCalls'[k] <= createCalls[k] + 1
            /\ createCalls'[k] > createCalls[k] =>
                  \E c \in Callers : ckey'[c] = k /\ pc[c] # "creating" /\ pc'[c] = "creating"
            /\ (connections'[k] # connections[k] /\ connections'[k] # 0) =>
                  /\ created'[k] = created[k] + 1
                  /\ connections'[k] = created'[k]]_vars
\* a call whose only creation attempt failed has ended with the error and the
\* key has no cached session
C20_Witness ==
    \E c \in Callers :
        /\ pc[c] = "done" /\ calls[c] = 1 /\ ret[c] = -1
        /\ createCalls[ckey[c]] = 1 /\ created[ckey[c]] = 0
        /\ connections[ckey[c]] = 0

(* C21: a transport error at any step of control, logs, create, remove,     *)
(* apply-override, remove-override, validate or validate-override does not  *)
(* leave the operation as an exception: the caller gets a failure result;   *)
(* only system-info gathering and discovery raise a connection error.       *)
C21_TransportErrorsBecomeResults ==
    /\ last.op \in ResultOps =>
          /\ last.exc = "none"
          /\ last.transport => (last.outcome = "failure" /\ ~last.ssh_ok)
    /\ (last.op \in RaisingOps /\ last.transport) => last.exc = "SSHConnectionError"
    /\ last.exc # "none" => last.op \in RaisingOps
\* an override application whose daemon-reload or chmod hit a transport error
\* after the file was replaced has returned a failure result
C21_Witness ==
    /\ last.op = "create_service_override"
    /\ last.transport /\ last.remote > 4
    /\ last.outcome = "failure" /\ last.exc = "none"
    /\ overrides["app"] # NoFile

(* C22: no get_connection call blocks for ever: a call that waits for the   *)
(* per-key lock, probes a cached session or creates a session eventually    *)
(* returns, even when a remote command never responds.                      *)
C22_EveryCallReturns ==
    \A c \in Callers : (pc[c] \in {"waiting", "probing", "creating"}) ~> (pc[c] = "done")

(* C23: at every moment at most PoolSize blocking remote calls, probes and  *)
(* creation round trips of all keys included, are executing; a further      *)
(* call waits until a worker is free.                                       *)
C23_WorkerPoolBound ==
    /\ Cardinality(workers) <= PoolSize
    /\ \A c \in workers : pc[c] \in {"probing", "creating", "hung"}
\* both keys have a round trip to make, one is executing on the only worker
\* and the other waits in the executor's queue
C23_Witness ==
    \E c1, c2 \in Callers :
        /\ c1 \in workers /\ c2 \notin workers
        /\ Cardinality(workers) = PoolSize
        /\ pc[c1] \in {"probing", "creating"} /\ pc[c2] \in {"probing", "creating"}
        /\ ckey[c1] # ckey[c2]

(* C24: after any interleaving of discovery passes and deploys on the host  *)
(* no two rows of the services table have the same name.                    *)
C24_UniqueNames ==
    \A s, t \in services : s.name = t.name => s = t

(* C25: every row of the services table that is marked as a timer carries a  *)
(* timer schedule, whatever accepted timer configuration it was deployed     *)
(* from (a calendar, a cron expression, or only boot-relative triggers).     *)
C25_TimerHasSchedule ==
    \A s \in services : s.is_timer => s.timer_schedule # NoValue

\* a timer configuration that names both a calendar and a cron expression
CarriesBoth(tc) ==
    /\ tc # NoTimerConfig
    /\ TheTimer(tc).on_calendar # NoValue
    /\ TheTimer(tc).cron_expression # NoValue

(* C26: a deploy request whose timer configuration carries both on_calendar  *)
(* and cron_expression is rejected with no remote call made and no timer     *)
(* text rendered from it.                                                    *)
C26_BothSchedulesRejected ==
    (last.op = "deploy" /\ CarriesBoth(last.timer_config)) =>
        /\ last.rejected
        /\ last.remote = 0
        /\ last.timer_text = <<>>

(* C27: a deploy request with create_timer set and no timer_config is        *)
(* rejected: nothing is rendered, no remote call is made, no row is added.   *)
C27_TimerNeedsConfig ==
    (last.op = "deploy" /\ last.create_timer /\ last.timer_config = NoTimerConfig) =>
        /\ last.rejected
        /\ last.remote = 0
        /\ last.rendered = {}
        /\ last.rec = 0
C27_Witness ==
    /\ last.op = "deploy" /\ last.create_timer /\ last.timer_config = NoTimerConfig
    /\ last.rejected

(* C28: remove_service_override on a unit that has no override file, the    *)
(* existence check having run, returns success having issued nothing after  *)
(* the check (no rm, no daemon-reload) and leaves the host's override files  *)
(* as they were, so repeating it gives the same result.                      *)
C28_RemoveAbsentOverrideIsNoOp ==
    [][(/\ last'.op = "remove_service_override"
        /\ ~last'.transport
        /\ overrides["app"] = NoFile)
       => (/\ last'.ssh_ok /\ last'.outcome = "success"
           /\ last'.remote = 2
           /\ UNCHANGED <<overrides, backups, tmpfiles>>)]_vars
\* the removal ran a second time, after one that had deleted the override
C28_Witness ==
    /\ last.op = "remove_service_override"
    /\ last.ssh_ok /\ last.remote = 2
    /\ overrides["app"] = NoFile
    /\ \E t \in Clock : backups[<<"app", t>>] # NoFile

C31_PartialFactsAreSuccess ==
    last.op = "get_system_info" =>
        IF last.remote = 1
        THEN last.exc = "SSHConnectionError"
        ELSE /\ last.exc = "none" /\ last.outcome = "success"
             /\ DOMAIN last.facts = InfoKeys
             /\ \A k \in InfoKeys :
                   /\ last.probes[k] # "ok" => last.facts[k] = NoValue
                   /\ last.probes[k] = "ok" =>
                         last.facts[k] =
                           SystemInfo(last.host, "ok", [j \in InfoKeys |-> "ok"]).facts[k]
\* one command raised, another failed, and the rest of the facts were returned
C31_Witness ==
    /\ last.op = "get_system_info" /\ last.outcome = "success"
    /\ last.probes["kernel_version"] = "raise" /\ last.probes["cpu_cores"] = "fail"
    /\ last.facts["kernel_version"] = NoValue /\ last.facts["cpu_cores"] = NoValue
    /\ last.facts["os_name"] # NoValue /\ last.facts["total_disk_gb"] # NoValue

\* the section headers of a unit file, in the order [Unit], [Service], [Timer], [Install]
SectionHeaders == << <<"[Unit]">>, <<"[Service]">>, <<"[Timer]">>, <<"[Install]">> >>
IsHeader(line) == \E r \in 1..Len(SectionHeaders) : SectionHeaders[r] = line
HeaderRank(line) == CHOOSE r \in 1..Len(SectionHeaders) : SectionHeaders[r] = line
HeaderLines(text) == {k \in 1..Len(text) : IsHeader(text[k])}
\* the header at line k is followed by no directive
SectionEmpty(text, k) ==
    k = Len(text) \/ text[k + 1] = <<"">> \/ IsHeader(text[k + 1])

(* C32: every rendered service unit, timer unit and override drop-in has its *)
(* section headers in the order [Unit], [Service], [Timer], [Install], has   *)
(* [Timer] only in a timer unit, and has no header without a directive       *)
(* under it.                                                                 *)
C32_SectionsOrderedAndNonEmpty ==
    last.op = "render" =>
        /\ \A j, k \in HeaderLines(last.content) :
              j < k => HeaderRank(last.content[j]) < HeaderRank(last.content[k])
        /\ \A k \in HeaderLines(last.content) :
              /\ last.content[k] = <<"[Timer]">> => last.file = "timer"
              /\ ~SectionEmpty(last.content, k)

\* the systemd calendar keyword of a cron shortcut
CalendarKeyword(x) ==
    CASE x \in {"@yearly", "@annually"} -> "yearly"
      [] x = "@monthly" -> "monthly"
      [] x = "@weekly" -> "weekly"
      [] x \in {"@daily", "@midnight"} -> "daily"
      [] x = "@hourly" -> "hourly"
\* the day name of a cron weekday number, Sunday being 0
WeekdayName(wd) ==
    CASE wd = "0" -> "Sun" [] wd = "1" -> "Mon" [] wd = "2" -> "Tue" [] wd = "3" -> "Wed"
      [] wd = "4" -> "Thu" [] wd = "5" -> "Fri" [] wd = "6" -> "Sat"

C35_UpdateOverwritesFromRemote ==
    [][(last'.op = "discover" /\ last'.outcome = "success") =>
        \A x \in last'.infos : \A s \in UpdatedRows(services, last'.infos) :
            s.name = x.name =>
                \E t \in services' :
                    /\ t.id = s.id
                    /\ t.status = x.status
                    /\ t.main_pid = x.main_pid]_vars

\* C36: the status of the server changes only in a connection test, a system
\* information gathering or the probe of a flag update on an enabled server, to
\* ONLINE when the attempt succeeded, to OFFLINE when the test failed and to ERROR
\* when gathering raised SSHConnectionError; no other operation changes it, and an
\* operation on a disabled server neither changes it nor issues a remote call
ConnectionOps == {"test_connection", "gather_system_info", "update_server"}
C36_WitnessDisabled ==
    /\ last.op = "test_connection"
    /\ ~server.is_enabled
    /\ server.status = "OFFLINE"
    /\ last.remote = 0

\* C37: when two requests apply overrides to the same unit at the same time, a
\* request that answers success has moved its own rendering into place, and the
\* override file is always absent or the whole rendering of one request
ApplyRenderings == {HereDocFile(GenerateOverrideFileContent(cfg)) : cfg \in ApplyConfigs}
C37_SuccessInstalledOwnText ==
    /\ \A b \in Bases : overrides[b] \in ApplyRenderings \cup {NoFile}
    /\ (last.op = "update" /\ last.caller \in Passes /\ last.applied) =>
           last.installed = last.content
C37_WholeFileOfOneCall ==
    \A b \in Bases : overrides[b] \in ApplyRenderings \cup {NoFile}

\* C38: a caller that is outside get_connection holds no per-key lock, whether
\* its call returned a session or raised, and every call that has started
\* returns when remote commands complete or fail
InCall(c) == pc[c] \in {"waiting", "probing", "creating"}
C38_LockReleasedAndCallReturns ==
    /\ [](\A c \in Callers : ~InCall(c) => \A k \in Keys : connection_locks[k] # c)
    /\ \A c \in Callers : InCall(c) ~> (pc[c] = "done")
C38_Witness ==
    \E c, e \in Callers :
        /\ c # e /\ ckey[c] = ckey[e]
        /\ pc[c] = "done" /\ ret[c] = -1
        /\ pc[e] = "done" /\ blocked[e] /\ ret[e] > 0

\* C39: after any sequence of immediate applications and removing rollbacks
\* whose remote steps may fail, the row of a unit holds an override configuration
\* exactly when the host holds an override file for it, and the file is then the
\* rendering of that configuration
C39_StoredConfigMatchesFile ==
    \A s \in services :
        LET b == CleanName(s.name) IN
        /\ (override_config[s.id] # NoCfg) <=> (overrides[b] # NoFile)
        /\ override_config[s.id] # NoCfg =>
               RStrip(overrides[b]) = RStrip(GenerateOverrideFileContent(override_config[s.id]))

\* C40: a row whose is_managed flag is false keeps it false as long as the row
\* exists: no update, control, override, rollback or discovery pass sets it back
C40_UnmanagedStaysUnmanaged ==
    [][\A s \in services : ~s.is_managed =>
           \A t \in services' : t.id = s.id => ~t.is_managed]_vars
C40_Witness ==
    /\ last.op = "update" /\ last.outcome = "failure" /\ last.barred
    /\ server.is_enabled
    /\ \E s \in services : s.name = "app.service" /\ ~s.is_managed
                             /\ override_config[s.id] # NoCfg

====
